---- MODULE Spec2Model ----
(***************************************************************************)
(* State-machine model of the Starlink Prometheus exporter's session       *)
(* controller (the persistent CDP WebSocket, its correlation table, the    *)
(* page-load initialisation, the DOM-change counter and the                *)
(* extractJsonFromPage read path) together with the /metrics handler that  *)
(* calls it.                                                               *)
(*                                                                         *)
(* One action is one event-loop task: the delivery of one WebSocket        *)
(* message, one timer, one HTTP request, one socket event.  The promise    *)
(* continuations that the task makes runnable execute inside the same      *)
(* action, up to their next await on an unsettled promise.                 *)
(***************************************************************************)
EXTENDS Integers, Sequences, FiniteSets, TLC

(* ------------------------------ bounds --------------------------------- *)
MaxCalls   == 2   \* /metrics requests considered
MaxLoads   == 2   \* Page.loadEventFired notifications considered
MaxEvents  == 4   \* external events in one run: requests, page loads,
                  \* console messages, repeated polls, failed socket writes
MaxStrays  == 1   \* responses that answer no pending command
MaxErrors  == 1   \* commands the remote answers with an error

Calls == 1..MaxCalls
Pages == 1..MaxLoads

(* --------------------------- program constants ------------------------- *)
MutationsToWait == 2          \* targetCounter = initialCounter + 2
FirstId         == 1          \* let nextId = 1

ReadKinds == {"json", "garbage", "none"}

VARIABLES
  wsState,                 \* persistentWs.readyState
  initPc,                  \* position of initBrowser
  browserReady,            \* index.js browserReady
  loadListener,            \* permanent Page.loadEventFired listener attached
  firstLoadHandler,        \* one-shot first-load handler attached
  nextId,                  \* nextId
  inflight,                \* inflight: id -> awaiting continuation
  wire,                    \* commands written to the socket, unanswered
  sendErrors,              \* number of failed socket writes so far
  listeners,               \* number of consoleAPICalled handlers on the socket
  changeListenerRegistered,
  onJsonChangeResolve,     \* 0 = null, c = the closure created by call c
  changeEventCounter,
  pagePc,                  \* initializePageListener instances
  polls,                   \* repeated polls of waitForJsonElement so far
  resets,                  \* history: counter resets done by each instance
  callPc, targetCounter, callRes,   \* extractJsonFromPage instances
  pausedSince,             \* history: Debugger.pause sent after c's resume
  callMsgs,                \* history: change messages seen since c's resume
  rPaused, rObservers, rPageEnabled, loadsFired, changesFired, \* remote page
  straysFired,             \* responses delivered that answer no pending command
  refused,                 \* history: commands the remote answered with an error
  procPc,                  \* the exporter process: running / exiting / exited
  chromeAlive,             \* the spawned browser process still exists
  chromeKilled,            \* chromeProc.killed
  regPc,                   \* a call of registerJsonChangeListener made while
                           \* no command is pending
  encIn, encOut, encPc,    \* one call of jsonToPrometheus: data, result
  encHeaders,              \* emittedHeaders of the latest call
  encOther,                \* data of a call made besides those on encIn
  encAgain,                \* result of the second call on encIn
  pageText,                \* the text read from the page, trimmed
  scrapePc, scrapeData,    \* the scrape after the read: position, data
  scrapeBody               \* body of the /metrics response

rpcVars      == <<nextId, inflight, wire, sendErrors>>
initVars     == <<initPc, browserReady, loadListener, firstLoadHandler>>
listenerVars == <<listeners, changeListenerRegistered, onJsonChangeResolve,
                  changeEventCounter>>
pageVars     == <<pagePc, polls, resets>>
callVars     == <<callPc, targetCounter, callRes>>
histVars     == <<pausedSince, callMsgs>>
remoteVars   == <<rPaused, rObservers, rPageEnabled, loadsFired, changesFired,
                  straysFired, refused>>

procVars     == <<procPc, chromeAlive, chromeKilled>>
encVars      == <<encIn, encOut, encPc, encHeaders, encOther, encAgain>>

regVars      == <<regPc>>

sessionVars == <<wsState, rpcVars, initVars, listenerVars, pageVars, callVars,
                 histVars, remoteVars, procVars, regVars>>

scrapeVars   == <<pageText, scrapePc, scrapeData, scrapeBody>>

vars == <<sessionVars, encVars, scrapeVars>>

(* ------------------------------ helpers -------------------------------- *)
NoOwner == [k |-> "none", i |-> 0]
InitOwner == [k |-> "init", i |-> 0]
PageOwner(p) == [k |-> "page", i |-> p]
CallOwner(c) == [k |-> "call", i |-> c]

EmptyMap == [x \in {} |-> NoOwner]

Drop(f, k) == [x \in (DOMAIN f) \ {k} |-> f[x]]

Put(f, k, v) == [x \in (DOMAIN f) \cup {k} |-> IF x = k THEN v ELSE f[x]]

Min(S) == CHOOSE x \in S : \A y \in S : x <= y

InitAwaiting == {"enableRuntime", "enablePage", "enableDebugger"}
PageAwaiting == {"waitJson", "regEnable", "regEval", "pause"}
CallAwaiting == {"resume", "read", "pause"}
CallFailed   == {"failed_resume", "failed_read", "failed_pause",
                 "failed_timeout", "failed_parse", "failed_empty"}
CallFinished == CallFailed \cup {"returned"}
CallInFlight == {"resume", "wait", "read", "pause"}

(* external events so far: scrape requests, page loads, console messages, *)
(* repeated polls, failed socket writes, a browser crash, a signal         *)
Events ==
  loadsFired + changesFired + polls + sendErrors + straysFired
    + Cardinality({c \in Calls : callPc[c] # "idle"})
    + (IF chromeAlive \/ chromeKilled THEN 0 ELSE 1)
    + (IF procPc = "running" THEN 0 ELSE 1)

(* the event loop of the exporter process is running (a failed initBrowser *)
(* ends the process at once); a task of the session controller leaves the  *)
(* process and the browser process alone                                   *)
Running ==
  /\ procPc = "running"
  /\ initPc # "failed"
  /\ UNCHANGED <<procVars, regVars, encVars, scrapeVars>>

(* JSON null; the result of an encoder call that has not returned *)
JNull    == [t |-> "null", b |-> FALSE, n |-> 0, s |-> <<>>, ks |-> <<>>,
             c |-> <<>>]
NoOutput == [lines |-> <<>>, text |-> <<>>]
NoCall   == [JNull EXCEPT !.t = "none"]

(* variant: the readyState test is missing *)
SendOkAlways == TRUE

(* sendToPersistent: the readyState test *)
SendOk == wsState = "open"

(* sendToPersistent: inflight.set(id, {resolve, reject}) *)
InflightAfterSend(infl, owner) ==
  IF SendOk THEN Put(infl, nextId, owner) ELSE infl

(* sendToPersistent: persistentWs.send(JSON.stringify(msg)) *)
WireAfterSend(w, method, expr) ==
  IF SendOk THEN w \cup {[id |-> nextId, method |-> method, expr |-> expr]}
  ELSE w

SessionInit ==
  /\ wsState = "connecting"
  /\ initPc = "awaitOpen"
  /\ browserReady = FALSE
  /\ loadListener = FALSE
  /\ firstLoadHandler = FALSE
  /\ nextId = FirstId
  /\ inflight = EmptyMap
  /\ wire = {}
  /\ sendErrors = 0
  /\ listeners = 0
  /\ changeListenerRegistered = FALSE
  /\ onJsonChangeResolve = 0
  /\ changeEventCounter = 0
  /\ pagePc = [p \in Pages |-> "idle"]
  /\ polls = 0
  /\ resets = [p \in Pages |-> 0]
  /\ callPc = [c \in Calls |-> "idle"]
  /\ targetCounter = [c \in Calls |-> 0]
  /\ callRes = [c \in Calls |-> "unset"]
  /\ pausedSince = [c \in Calls |-> FALSE]
  /\ callMsgs = [c \in Calls |-> 0]
  /\ rPaused = FALSE
  /\ rObservers = 0
  /\ rPageEnabled = FALSE
  /\ loadsFired = 0
  /\ changesFired = 0
  /\ straysFired = 0
  /\ refused = {}
  /\ procPc = "running"
  /\ chromeAlive = TRUE
  /\ chromeKilled = FALSE
  /\ regPc = "off"

(* no encoder call is made *)
EncIdle ==
  /\ encIn = JNull
  /\ encOut = NoOutput
  /\ encPc = "off"
  /\ encHeaders = {}
  /\ encOther = NoCall
  /\ encAgain = NoOutput

(* no page text is parsed *)
ScrapeIdle ==
  /\ pageText = <<>>
  /\ scrapePc = "off"
  /\ scrapeData = NoCall
  /\ scrapeBody = NoOutput

(* the session controller after construction; no encoder call is modelled *)
Init ==
  /\ SessionInit
  /\ EncIdle
  /\ ScrapeIdle

(* variant: the id counter is not advanced *)
NextIdAfterReuse(id) == id

(* const id = nextId++ *)
NextIdAfter(id) == id + 1

(* ------------------- sendToPersistent, as used by a step --------------- *)
(* const id = nextId++; then either reject (socket not open) or register   *)
(* the continuation and write the command.                                 *)
SendFrom(owner, method, expr, infl1, wire1) ==
  /\ nextId' = NextIdAfter(nextId)
  /\ inflight' = InflightAfterSend(infl1, owner)
  /\ wire' = WireAfterSend(wire1, method, expr)

NoSend(infl1, wire1) ==
  /\ nextId' = nextId
  /\ inflight' = infl1
  /\ wire' = wire1

(* A Debugger.pause that reaches the socket re-pauses the session for      *)
(* every call that has resumed it and not yet finished.                    *)
PausedAfterPauseSent ==
  IF SendOk
  THEN [c \in Calls |-> IF callPc[c] \in CallInFlight THEN TRUE
                        ELSE pausedSince[c]]
  ELSE pausedSince

(* ---------------------- extractJsonFromPage ---------------------------- *)
(* variant: the wait is satisfied one notification early *)
TargetReachedOneShort(c, counter) == counter >= targetCounter[c] - 1

(* if (changeEventCounter >= targetCounter) *)
TargetReached(c, counter) == counter >= targetCounter[c]

(* JSON.parse(text), then the /\{[\s\S]*\}$/ fallback, on the read result *)
ParseOutcome(res) ==
  CASE res = "json"    -> "returned"
    [] res = "wrapped" -> "returned"
    [] res = "garbage" -> "failed_parse"
    [] OTHER           -> "failed_empty"

(* the wait promise of call c has been resolved: step 3, send the read *)
SendRead(c, infl1, wire1) ==
  /\ SendFrom(CallOwner(c), "Runtime.evaluate", "read", infl1, wire1)
  /\ callPc' = [callPc EXCEPT ![c] = IF SendOk THEN "read" ELSE "failed_read"]

(* continuation of extractJsonFromPage after an awaited command resolved *)
ResolveCall(c, val, infl1, wire1) ==
  /\ UNCHANGED <<initVars, pageVars, listeners, changeListenerRegistered,
                 changeEventCounter, targetCounter, callMsgs>>
  /\ CASE callPc[c] = "resume" ->
            IF TargetReached(c, changeEventCounter)
            THEN /\ onJsonChangeResolve' = 0
                 /\ SendRead(c, infl1, wire1)
                 /\ UNCHANGED <<callRes, pausedSince>>
            ELSE /\ onJsonChangeResolve' = c
                 /\ callPc' = [callPc EXCEPT ![c] = "wait"]
                 /\ NoSend(infl1, wire1)
                 /\ UNCHANGED <<callRes, pausedSince>>
       [] callPc[c] = "read" ->
            /\ callRes' = [callRes EXCEPT ![c] = val]
            /\ SendFrom(CallOwner(c), "Debugger.pause", "", infl1, wire1)
            /\ callPc' = [callPc EXCEPT ![c] =
                            IF SendOk THEN "pause" ELSE "failed_pause"]
            /\ pausedSince' = PausedAfterPauseSent
            /\ UNCHANGED onJsonChangeResolve
       [] callPc[c] = "pause" ->
            /\ callPc' = [callPc EXCEPT ![c] = ParseOutcome(callRes[c])]
            /\ NoSend(infl1, wire1)
            /\ UNCHANGED <<onJsonChangeResolve, callRes, pausedSince>>
       [] OTHER ->
            /\ NoSend(infl1, wire1)
            /\ UNCHANGED <<onJsonChangeResolve, callPc, callRes, pausedSince>>

(* ---------------------- initializePageListener ------------------------- *)
(* variant: the counter is cleared whether or not the element was found *)
CounterAfterCheckAlways(found, counter) == 0

(* changeEventCounter after `await waitForJsonElement()` has settled *)
CounterAfterCheck(found, counter) == IF found THEN 0 ELSE counter

ResolvePage(p, val, infl1, wire1) ==
  /\ UNCHANGED <<initVars, onJsonChangeResolve, callVars, callMsgs, polls>>
  /\ CASE pagePc[p] = "waitJson" ->
            LET found == (val = "true")
                resetDone == CounterAfterCheck(found, changeEventCounter + 1) = 0
            IN
            /\ changeEventCounter' = CounterAfterCheck(found, changeEventCounter)
            /\ resets' = [resets EXCEPT ![p] = IF resetDone THEN @ + 1 ELSE @]
            /\ UNCHANGED pausedSince
            /\ IF found
               THEN \* changeListenerRegistered = false; registerJsonChangeListener()
                    /\ changeListenerRegistered' = FALSE
                    /\ listeners' = listeners + 1
                    /\ SendFrom(PageOwner(p), "Runtime.enable", "", infl1, wire1)
                    /\ pagePc' = [pagePc EXCEPT ![p] =
                                    IF SendOk THEN "regEnable" ELSE "failed"]
               ELSE /\ pagePc' = [pagePc EXCEPT ![p] = "sleep"]
                    /\ NoSend(infl1, wire1)
                    /\ UNCHANGED <<changeListenerRegistered, listeners>>
       [] pagePc[p] = "regEnable" ->
            /\ SendFrom(PageOwner(p), "Runtime.evaluate", "observer", infl1, wire1)
            /\ pagePc' = [pagePc EXCEPT ![p] =
                            IF SendOk THEN "regEval" ELSE "failed"]
            /\ UNCHANGED <<changeEventCounter, resets, changeListenerRegistered,
                           listeners, pausedSince>>
       [] pagePc[p] = "regEval" ->
            /\ changeListenerRegistered' = TRUE
            /\ SendFrom(PageOwner(p), "Debugger.pause", "", infl1, wire1)
            /\ pagePc' = [pagePc EXCEPT ![p] =
                            IF SendOk THEN "pause" ELSE "failed"]
            /\ pausedSince' = PausedAfterPauseSent
            /\ UNCHANGED <<changeEventCounter, resets, listeners>>
       [] pagePc[p] = "pause" ->
            /\ pagePc' = [pagePc EXCEPT ![p] = "done"]
            /\ NoSend(infl1, wire1)
            /\ UNCHANGED <<changeEventCounter, resets, changeListenerRegistered,
                           listeners, pausedSince>>
       [] OTHER ->
            /\ NoSend(infl1, wire1)
            /\ UNCHANGED <<changeEventCounter, resets, changeListenerRegistered,
                           listeners, pausedSince, pagePc>>

(* --------------------------- initBrowser ------------------------------- *)
ResolveInit(infl1, wire1) ==
  /\ UNCHANGED <<listenerVars, pageVars, callVars, histVars, browserReady>>
  /\ CASE initPc = "enableRuntime" ->
            /\ SendFrom(InitOwner, "Page.enable", "", infl1, wire1)
            /\ initPc' = IF SendOk THEN "enablePage" ELSE "failed"
            /\ UNCHANGED <<loadListener, firstLoadHandler>>
       [] initPc = "enablePage" ->
            /\ SendFrom(InitOwner, "Debugger.enable", "", infl1, wire1)
            /\ initPc' = IF SendOk THEN "enableDebugger" ELSE "failed"
            /\ UNCHANGED <<loadListener, firstLoadHandler>>
       [] initPc = "enableDebugger" ->
            /\ loadListener' = TRUE
            /\ firstLoadHandler' = TRUE
            /\ initPc' = "waitLoad"
            /\ NoSend(infl1, wire1)
       [] OTHER ->
            /\ NoSend(infl1, wire1)
            /\ UNCHANGED <<initPc, loadListener, firstLoadHandler>>

(* ------------------ persistentWs.on('message') #1 ---------------------- *)
(* variant: the handler resolves the oldest pending call *)
LookupOldest(infl, msgId) ==
  IF msgId # 0 /\ DOMAIN infl # {} THEN Min(DOMAIN infl) ELSE 0

(* if (msg.id && inflight.has(msg.id)): the entry the handler resolves,    *)
(* 0 when the message settles nothing.                                     *)
Lookup(infl, msgId) == IF msgId # 0 /\ msgId \in DOMAIN infl THEN msgId ELSE 0

OnResponse(msg, wire1) ==
  LET k == Lookup(inflight, msg.id) IN
  IF k = 0
  THEN /\ NoSend(inflight, wire1)
       /\ UNCHANGED <<initVars, listenerVars, pageVars, callVars, histVars>>
  ELSE LET owner == inflight[k]
           infl1 == Drop(inflight, k)
       IN
       /\ CASE owner.k = "init" -> ResolveInit(infl1, wire1)
            [] owner.k = "page" -> ResolvePage(owner.i, msg.result, infl1, wire1)
            [] OTHER            -> ResolveCall(owner.i, msg.result, infl1, wire1)

(* ------------------------- rejected commands --------------------------- *)
(* variant: a rejected command makes the call start over *)
CallPcAfterRejectRetry(pc) ==
  IF pc \in {"resume", "read", "pause"} THEN "idle" ELSE pc

CallPcAfterReject(pc) ==
  CASE pc = "resume" -> "failed_resume"
    [] pc = "read"   -> "failed_read"
    [] pc = "pause"  -> "failed_pause"
    [] OTHER         -> pc

(* the awaiting continuations of the owners in S see their await throw *)
RejectOwners(S) ==
  /\ initPc' = IF InitOwner \in S THEN "failed" ELSE initPc
  /\ pagePc' = [p \in Pages |-> IF PageOwner(p) \in S THEN "failed"
                                ELSE pagePc[p]]
  /\ callPc' = [c \in Calls |-> IF CallOwner(c) \in S
                                THEN CallPcAfterReject(callPc[c])
                                ELSE callPc[c]]

(* variant: the close handler only clears the table *)
RejectedOnCloseNone(infl) == {}

(* persistentWs.on('close'): for (const {reject} of inflight.values()) *)
RejectedOnClose(infl) == {infl[x] : x \in DOMAIN infl}

(* persistentWs.on('close'): inflight.clear() *)
InflightAfterClose(infl) == EmptyMap


(* -------------- persistentWs.on('message') consoleAPICalled ------------ *)
(* Every registered handler runs once per '__JSON_CHANGED__' message, in   *)
(* registration order: changeEventCounter++, then the waiter (if any) is   *)
(* called and resolves its call when the target is reached.                *)
RECURSIVE RunChangeListeners(_, _)
RunChangeListeners(n, st) ==
  IF n = 0 THEN st
  ELSE LET c1 == st.counter + 1
           w  == st.waiter
       IN IF w # 0 /\ TargetReached(w, c1)
          THEN RunChangeListeners(n - 1,
                 [counter |-> c1, waiter |-> 0, resolved |-> w])
          ELSE RunChangeListeners(n - 1,
                 [counter |-> c1, waiter |-> w, resolved |-> st.resolved])

(* ============================== actions ================================ *)

(* persistentWs 'open': openPromise resolves, initBrowser sends Runtime.enable *)
WsOpen ==
  /\ Running
  /\ wsState = "connecting"
  /\ initPc = "awaitOpen"
  /\ wsState' = "open"
  /\ nextId' = NextIdAfter(nextId)
  /\ inflight' = Put(inflight, nextId, InitOwner)
  /\ wire' = wire \cup {[id |-> nextId, method |-> "Runtime.enable", expr |-> ""]}
  /\ initPc' = "enableRuntime"
  /\ UNCHANGED <<sendErrors, browserReady, loadListener,
                 firstLoadHandler, listenerVars, pageVars, callVars, histVars,
                 remoteVars>>

(* persistentWs 'error' before open: openPromise rejects, initBrowser throws *)
WsError ==
  /\ Running
  /\ wsState = "connecting"
  /\ initPc = "awaitOpen"
  /\ wsState' = "closed"
  /\ initPc' = "failed"
  /\ UNCHANGED <<rpcVars, browserReady, loadListener, firstLoadHandler,
                 listenerVars, pageVars, callVars, histVars, remoteVars>>

(* persistentWs 'close': reject every pending call, clear the table *)
WsClose ==
  /\ Running
  /\ wsState = "open"
  /\ wsState' = "closed"
  /\ RejectOwners(RejectedOnClose(inflight))
  /\ UNCHANGED sendErrors
  /\ inflight' = InflightAfterClose(inflight)
  /\ wire' = {}
  /\ nextId' = nextId
  /\ UNCHANGED <<browserReady, loadListener, firstLoadHandler, listenerVars,
                 polls, resets, targetCounter, callRes, histVars,
                 remoteVars>>

(* persistentWs.send callback with err: inflight.delete(id); reject(err) *)
SendFailed ==
  \E w \in wire :
    /\ Running
    /\ wsState = "open"
    /\ w.id \in DOMAIN inflight
    /\ RejectOwners({inflight[w.id]})
    /\ Events < MaxEvents
    /\ sendErrors' = sendErrors + 1
    /\ inflight' = Drop(inflight, w.id)
    /\ wire' = wire \ {w}
    /\ nextId' = nextId
    /\ UNCHANGED <<wsState, browserReady, loadListener, firstLoadHandler,
                   listenerVars, polls, resets, targetCounter, callRes,
                   histVars, remoteVars>>

(* values the page can answer a command with *)
ResultsFor(w) ==
  IF w.method = "Runtime.evaluate" /\ w.expr = "check" THEN {"true", "false"}
  ELSE IF w.method = "Runtime.evaluate" /\ w.expr = "read" THEN ReadKinds
  ELSE {"ok"}

(* The page executes one outstanding command (in any order) and its        *)
(* response {id, result} is delivered to the message handler.              *)
Respond ==
  \E w \in wire :
    \E val \in ResultsFor(w) :
      /\ Running
      /\ wsState = "open"
      /\ rPaused' = IF w.method = "Debugger.pause" THEN TRUE
                    ELSE IF w.method = "Debugger.resume" THEN FALSE
                    ELSE rPaused
      /\ rObservers' = IF w.expr = "observer" THEN rObservers + 1
                       ELSE rObservers
      /\ rPageEnabled' = (rPageEnabled \/ w.method = "Page.enable")
      /\ UNCHANGED <<wsState, loadsFired, changesFired, straysFired,
                     refused, sendErrors>>
      /\ OnResponse([id |-> w.id, result |-> val], wire \ {w})

(* Page.loadEventFired is delivered: the permanent listener starts         *)
(* initializePageListener, the one-shot handler lets initBrowser return    *)
(* and the startup code of index.js sets browserReady.                     *)
LoadEvent ==
  /\ Running
  /\ wsState = "open"
  /\ rPageEnabled
  /\ loadsFired < MaxLoads
  /\ Events < MaxEvents
  /\ loadsFired' = loadsFired + 1
  /\ rObservers' = 0
  /\ rPaused' = FALSE
  /\ UNCHANGED <<wsState, rPageEnabled, changesFired, straysFired,
                 refused, sendErrors>>
  /\ IF loadListener
     THEN /\ SendFrom(PageOwner(loadsFired + 1), "Runtime.evaluate", "check",
                      inflight, wire)
          /\ pagePc' = [pagePc EXCEPT ![loadsFired + 1] =
                          IF SendOk THEN "waitJson" ELSE "failed"]
     ELSE /\ NoSend(inflight, wire)
          /\ pagePc' = pagePc
  /\ IF firstLoadHandler
     THEN /\ firstLoadHandler' = FALSE
          /\ initPc' = "ready"
          /\ browserReady' = TRUE
     ELSE UNCHANGED <<firstLoadHandler, initPc, browserReady>>
  /\ UNCHANGED <<loadListener, listenerVars, polls, resets, callVars,
                 histVars>>

(* variant: the 15 s timer rejects the race *)
AfterLoadTimeoutThrows == "failed"

(* Promise.race([loadPromise, new Promise((r) => setTimeout(r, 15000))]):  *)
(* the timer resolves, initBrowser returns                                 *)
AfterLoadTimeout == "ready"

(* setTimeout(r, 15000) of initBrowser wins the race *)
InitTimeout ==
  /\ Running
  /\ initPc = "waitLoad"
  /\ initPc' = AfterLoadTimeout
  /\ browserReady' = (AfterLoadTimeout = "ready")
  /\ UNCHANGED <<wsState, rpcVars, loadListener, firstLoadHandler,
                 listenerVars, pageVars, callVars, histVars, remoteVars>>

(* waitForJsonElement: the 200 ms sleep is over, the loop polls again *)
PollAgain ==
  \E p \in Pages :
    /\ Running
    /\ pagePc[p] = "sleep"
    /\ Events < MaxEvents
    /\ polls' = polls + 1
    /\ SendFrom(PageOwner(p), "Runtime.evaluate", "check", inflight, wire)
    /\ pagePc' = [pagePc EXCEPT ![p] = IF SendOk THEN "waitJson" ELSE "failed"]
    /\ UNCHANGED <<wsState, sendErrors, initVars, listenerVars,
                   resets, callVars, histVars, remoteVars>>

(* waitForJsonElement: maxWaitMs is over, it throws; the caller logs *)
PollExpire ==
  \E p \in Pages :
    /\ Running
    /\ pagePc[p] = "sleep"
    /\ pagePc' = [pagePc EXCEPT ![p] = "failed"]
    /\ UNCHANGED <<wsState, rpcVars, initVars, listenerVars, polls, resets,
                   callVars, histVars, remoteVars>>

(* The observer in the page logs '__JSON_CHANGED__' and the                *)
(* Runtime.consoleAPICalled message is delivered.                          *)
ChangeEvent ==
  /\ Running
  /\ wsState = "open"
  /\ rObservers > 0
  /\ ~rPaused
  /\ Events < MaxEvents
  /\ changesFired' = changesFired + 1
  /\ UNCHANGED <<wsState, sendErrors, rPaused, rObservers,
                 rPageEnabled, loadsFired, straysFired, refused>>
  /\ LET st == RunChangeListeners(listeners,
                 [counter |-> changeEventCounter,
                  waiter |-> onJsonChangeResolve, resolved |-> 0])
     IN /\ changeEventCounter' = st.counter
        /\ onJsonChangeResolve' = st.waiter
        /\ callMsgs' = [c \in Calls |->
                          IF callPc[c] \in {"resume", "wait"}
                            /\ callMsgs[c] < MutationsToWait
                          THEN callMsgs[c] + 1 ELSE callMsgs[c]]
        /\ IF st.resolved # 0 /\ callPc[st.resolved] = "wait"
           THEN SendRead(st.resolved, inflight, wire)
           ELSE /\ NoSend(inflight, wire)
                /\ UNCHANGED callPc
  /\ UNCHANGED <<initVars, listeners, changeListenerRegistered, pageVars,
                 targetCounter, callRes, pausedSince>>

(* variant: the handler does not test browserReady *)
NotReadyNever(ready) == FALSE

(* if (!browserReady) *)
NotReady(ready) == ~ready

(* GET /metrics: 503 while the browser is not ready, else                  *)
(* extractJsonFromPage records the target and sends Debugger.resume.       *)
MetricsRequest ==
  \E c \in Calls :
    /\ Running
    /\ callPc[c] = "idle"
    /\ Events < MaxEvents
    /\ \A d \in Calls : d < c => callPc[d] # "idle"
    /\ IF NotReady(browserReady)
       THEN /\ callPc' = [callPc EXCEPT ![c] = "rejected503"]
            /\ UNCHANGED <<rpcVars, targetCounter, histVars>>
       ELSE /\ targetCounter' = [targetCounter EXCEPT ![c] =
                                   changeEventCounter + MutationsToWait]
            /\ SendFrom(CallOwner(c), "Debugger.resume", "", inflight, wire)
            /\ callPc' = [callPc EXCEPT ![c] =
                            IF SendOk THEN "resume" ELSE "failed_resume"]
            /\ pausedSince' = [pausedSince EXCEPT ![c] = FALSE]
            /\ UNCHANGED <<sendErrors, callMsgs>>
    /\ UNCHANGED <<wsState, initVars, listenerVars, pageVars, callRes,
                   remoteVars>>

(* the 10 s timer of the mutation wait fires *)
Timeout ==
  \E c \in Calls :
    /\ Running
    /\ callPc[c] = "wait"
    /\ onJsonChangeResolve' = 0
    /\ callPc' = [callPc EXCEPT ![c] = "failed_timeout"]
    /\ UNCHANGED <<wsState, rpcVars, initVars, listeners,
                   changeListenerRegistered, changeEventCounter, pageVars,
                   targetCounter, callRes, histVars, remoteVars>>

(* ------------------------------ shutdown ------------------------------- *)
(* cleanup: try { persistentWs.close(); } catch (_) {}                     *)
(* close() on a connecting or open socket starts the closing handshake,    *)
(* on a closing or closed socket it does nothing                           *)
WsStateAfterCleanup(ws) ==
  IF ws \in {"connecting", "open"} THEN "closing" ELSE ws

(* variant: the browser process is not signalled *)
AliveAfterCleanupKeep(alive, killed) == alive

(* cleanup: if (chromeProc && !chromeProc.killed) chromeProc.kill('SIGKILL') *)
AliveAfterCleanup(alive, killed) == IF killed THEN alive ELSE FALSE

(* chromeProc.killed after cleanup: kill() sets it when the signal was     *)
(* delivered, that is when the process still existed                       *)
KilledAfterCleanup(alive, killed) == killed \/ alive

(* const cleanup = () => { ... } *)
cleanup ==
  /\ wsState' = WsStateAfterCleanup(wsState)
  /\ chromeAlive' = AliveAfterCleanup(chromeAlive, chromeKilled)
  /\ chromeKilled' = KilledAfterCleanup(chromeAlive, chromeKilled)

(* index.js: initBrowser threw: catch (err) { ...; process.exit(1); },     *)
(* the 'exit' handler runs cleanup and the process ends                    *)
StartupFailed ==
  /\ procPc = "running"
  /\ initPc = "failed"
  /\ cleanup
  /\ procPc' = "exited"
  /\ UNCHANGED <<rpcVars, initVars, listenerVars, pageVars, callVars,
                 histVars, remoteVars, regVars, encVars, scrapeVars>>

(* the browser process ends on its own after its socket has gone *)
ChromeExit ==
  /\ procPc = "running"
  /\ initPc # "failed"
  /\ wsState = "closed"
  /\ chromeAlive
  /\ Events < MaxEvents
  /\ chromeAlive' = FALSE
  /\ UNCHANGED <<wsState, rpcVars, initVars, listenerVars, pageVars, callVars,
                 histVars, remoteVars, procPc, chromeKilled, regVars,
                 encVars, scrapeVars>>

(* process.on('SIGINT' / 'SIGTERM', () => { cleanup(); process.exit(0); }): *)
(* the handler runs cleanup, process.exit starts emitting 'exit'            *)
Shutdown ==
  /\ procPc = "running"
  /\ initPc # "failed"
  /\ Events < MaxEvents
  /\ cleanup
  /\ procPc' = "exiting"
  /\ UNCHANGED <<rpcVars, initVars, listenerVars, pageVars, callVars,
                 histVars, remoteVars, regVars, encVars, scrapeVars>>

(* process.on('exit', cleanup): cleanup runs again, the process ends *)
ExitHandler ==
  /\ procPc = "exiting"
  /\ cleanup
  /\ procPc' = "exited"
  /\ UNCHANGED <<rpcVars, initVars, listenerVars, pageVars, callVars,
                 histVars, remoteVars, regVars, encVars, scrapeVars>>

Next ==
  \/ WsOpen
  \/ WsError
  \/ WsClose
  \/ SendFailed
  \/ Respond
  \/ LoadEvent
  \/ InitTimeout
  \/ PollAgain
  \/ PollExpire
  \/ ChangeEvent
  \/ MetricsRequest
  \/ Timeout
  \/ StartupFailed
  \/ ChromeExit
  \/ Shutdown
  \/ ExitHandler

Spec == Init /\ [][Next]_vars

(* Fairness the event loop guarantees: an armed timer fires.  Nothing      *)
(* obliges the page to answer a command or the socket to close.            *)
FairSpec ==
  /\ Spec
  /\ WF_vars(Timeout)
  /\ WF_vars(InitTimeout)
  /\ WF_vars(PollAgain \/ PollExpire)

(* ------------------------- stray responses ----------------------------- *)
(* A message with an id that is in no entry of the table is delivered: a   *)
(* response the remote sends for no pending command.  The handlers for     *)
(* Page.loadEventFired and Runtime.consoleAPICalled test msg.method, which *)
(* a response does not have.                                               *)
StrayResponse ==
  \E id \in (1..nextId) \ DOMAIN inflight :
    /\ Running
    /\ wsState = "open"
    /\ straysFired < MaxStrays
    /\ Events < MaxEvents
    /\ straysFired' = straysFired + 1
    /\ UNCHANGED <<wsState, sendErrors, rPaused, rObservers, rPageEnabled,
                   loadsFired, changesFired, refused>>
    /\ OnResponse([id |-> id, result |-> "ok"], wire)

MsgNext == Next \/ StrayResponse

MsgSpec == Init /\ [][MsgNext]_vars

(* -------------------------- error responses ---------------------------- *)
(* variant: the handler rejects the pending call when msg.error is set *)
RejectsOnErrorAlways(msg) == TRUE

(* the message handler never looks at msg.error *)
RejectsOnError(msg) == FALSE

(* The remote refuses one outstanding command: it does not execute it and  *)
(* answers {id, error}.  The handler calls resolve(msg.result) with        *)
(* msg.result undefined.                                                   *)
RespondError ==
  \E w \in wire :
    LET msg == [id |-> w.id, result |-> "undefined"] IN
    /\ Running
    /\ wsState = "open"
    /\ w.id \in DOMAIN inflight
    /\ Cardinality(refused) < MaxErrors
    /\ refused' = refused \cup {[method |-> w.method,
                                  owner |-> inflight[w.id]]}
    /\ UNCHANGED <<wsState, sendErrors, rPaused, rObservers, rPageEnabled,
                   loadsFired, changesFired, straysFired>>
    /\ IF RejectsOnError(msg)
       THEN /\ RejectOwners({inflight[w.id]})
            /\ NoSend(Drop(inflight, w.id), wire \ {w})
            /\ UNCHANGED <<browserReady, loadListener, firstLoadHandler,
                           listenerVars, polls, resets, targetCounter,
                           callRes, histVars>>
       ELSE OnResponse(msg, wire \ {w})

ErrNext == Next \/ RespondError

ErrSpec == Init /\ [][ErrNext]_vars

(* -------------------- registerJsonChangeListener ----------------------- *)
(* One call of registerJsonChangeListener on its own, made in any state of *)
(* the session in which no command is pending; no other task runs until it *)
(* has returned.                                                           *)
RegOwner == [k |-> "reg", i |-> 0]

(* variant: the function does not test the flag *)
AlreadyRegisteredNever(flag) == FALSE

(* if (changeListenerRegistered) { ...; return; } *)
AlreadyRegistered(flag) == flag

(* the call up to its first await: the early return, or the handler is     *)
(* added to the socket and Runtime.enable is sent                          *)
regCall ==
  /\ procPc = "running"
  /\ initPc # "failed"
  /\ regPc = "off"
  /\ inflight = EmptyMap
  /\ IF AlreadyRegistered(changeListenerRegistered)
     THEN /\ regPc' = "returned_early"
          /\ NoSend(inflight, wire)
          /\ UNCHANGED listeners
     ELSE /\ listeners' = listeners + 1
          /\ SendFrom(RegOwner, "Runtime.enable", "", inflight, wire)
          /\ regPc' = IF SendOk THEN "regEnable" ELSE "failed"
  /\ UNCHANGED <<wsState, sendErrors, initVars, changeListenerRegistered,
                 onJsonChangeResolve, changeEventCounter, pageVars, callVars,
                 histVars, remoteVars, procVars, encVars, scrapeVars>>

(* the response to the call's pending command is delivered: the observer   *)
(* script is sent, or the flag is set and the call returns                 *)
regRespond ==
  \E w \in wire :
    /\ procPc = "running"
    /\ wsState = "open"
    /\ regPc \in {"regEnable", "regEval"}
    /\ w.id \in DOMAIN inflight
    /\ inflight[w.id] = RegOwner
    /\ rObservers' = IF w.expr = "observer" THEN rObservers + 1
                     ELSE rObservers
    /\ IF regPc = "regEnable"
       THEN /\ SendFrom(RegOwner, "Runtime.evaluate", "observer",
                        Drop(inflight, w.id), wire \ {w})
            /\ regPc' = "regEval"
            /\ UNCHANGED changeListenerRegistered
       ELSE /\ NoSend(Drop(inflight, w.id), wire \ {w})
            /\ changeListenerRegistered' = TRUE
            /\ regPc' = "returned"
    /\ UNCHANGED <<wsState, sendErrors, initVars, listeners,
                   onJsonChangeResolve, changeEventCounter, pageVars, callVars,
                   histVars, rPaused, rPageEnabled, loadsFired, changesFired,
                   straysFired, refused, procVars, encVars, scrapeVars>>

(* persistentWs 'close' while the call awaits a command: the await throws *)
regClosed ==
  /\ procPc = "running"
  /\ wsState = "open"
  /\ regPc \in {"regEnable", "regEval"}
  /\ wsState' = "closed"
  /\ regPc' = "failed"
  /\ inflight' = InflightAfterClose(inflight)
  /\ wire' = {}
  /\ UNCHANGED <<nextId, sendErrors, initVars, listenerVars, pageVars,
                 callVars, histVars, remoteVars, procVars, encVars,
                 scrapeVars>>

(* the session as in Next until the call is made *)
beforeReg == regPc = "off" /\ Next

RegNext == beforeReg \/ regCall \/ regRespond \/ regClosed

RegSpec == Init /\ [][RegNext]_vars

(* =============================== encoder =============================== *)
(* jsonToPrometheus of helpers.js.  A JS string is a sequence of           *)
(* one-character strings, a JSON value a record of its type t and, by     *)
(* type, its boolean b, number n, string s, elements c, or keys ks and     *)
(* their values c in insertion order.  An output                           *)
(* line is kept both as what emitSample was given (metric, labels, value)  *)
(* and as the text it pushed.                                              *)

MaxNodes  == 4   \* nodes (values) of a generated JSON tree
MaxStrLen == 2   \* length of a generated string leaf
MaxKeyLen == 4   \* length of a generated object key

Prefix == <<"p", "_">>

(* ------------------------------ characters ----------------------------- *)
LowerChars == {"a", "b", "c", "d", "e", "f", "g", "h", "i", "j", "k", "l",
               "m", "n", "o", "p", "q", "r", "s", "t", "u", "v", "w", "x",
               "y", "z"}
UpperChars == {"A", "B"}
DigitSeq   == <<"0", "1", "2", "3", "4", "5", "6", "7", "8", "9">>
DigitChars == {DigitSeq[i] : i \in 1..Len(DigitSeq)}
WhiteChars == {" ", "\n", "\t"}

S_id     == <<"i", "d">>
S_index  == <<"i", "n", "d", "e", "x">>
S_name   == <<"n", "a", "m", "e">>
S_value  == <<"v", "a", "l", "u", "e">>
S_none   == <<"n", "o", "n", "e">>
S_root   == <<"r", "o", "o", "t">>
S_null   == <<"n", "u", "l", "l">>
S_true   == <<"t", "r", "u", "e">>
S_false  == <<"f", "a", "l", "s", "e">>
S_object == <<"[", "o", "b", "j", "e", "c", "t", " ",
              "O", "b", "j", "e", "c", "t", "]">>
S_type   == <<"#", " ", "T", "Y", "P", "E", " ">>
S_gauge  == <<" ", "g", "a", "u", "g", "e">>

(* String.prototype.toLowerCase on one character *)
ToLower(ch) ==
  CASE ch = "A" -> "a"
    [] ch = "B" -> "b"
    [] OTHER    -> ch

(* Array.prototype.join *)
RECURSIVE Join(_, _)
Join(ss, sep) ==
  IF ss = <<>> THEN <<>>
  ELSE IF Len(ss) = 1 THEN ss[1]
  ELSE ss[1] \o sep \o Join(Tail(ss), sep)

RECURSIVE NatText(_)
NatText(n) ==
  IF n < 10 THEN <<DigitSeq[n + 1]>>
  ELSE NatText(n \div 10) \o <<DigitSeq[(n % 10) + 1]>>

(* String(n) / `${n}` for an integer n *)
NumText(n) == IF n < 0 THEN <<"-">> \o NatText(0 - n) ELSE NatText(n)

(* ------------------------------ JSON values ---------------------------- *)
JBool(b) == [JNull EXCEPT !.t = "bool", !.b = b]
JNum(n)  == [JNull EXCEPT !.t = "num", !.n = n]
JStr(s)  == [JNull EXCEPT !.t = "str", !.s = s]
JArr(es) == [JNull EXCEPT !.t = "arr", !.c = es]

RECURSIVE Column(_, _)
Column(fs, j) ==
  IF fs = <<>> THEN <<>> ELSE <<fs[1][j]>> \o Column(Tail(fs), j)

(* an object from its keys and their values *)
JObjOf(ks, vs) == [JNull EXCEPT !.t = "obj", !.ks = ks, !.c = vs]

(* an object from its <<key, value>> fields *)
JObj(fs) == JObjOf(Column(fs, 1), Column(fs, 2))

RECURSIVE Zip(_, _)
Zip(ks, vs) ==
  IF ks = <<>> THEN <<>>
  ELSE << <<ks[1], vs[1]>> >> \o Zip(Tail(ks), Tail(vs))

(* the <<key, value>> fields of an object, in insertion order *)
Fields(node) == Zip(node.ks, node.c)

IsPrimitive(node) == node.t \in {"bool", "num", "str"}

(* variant: null is not recognised *)
IsNullNever(node) == FALSE

(* node == null *)
IsNull(node) == node.t = "null"

(* a canonical array index: such keys come first in Object.entries *)
IsIndexKey(k) ==
  /\ k # <<>>
  /\ \A i \in 1..Len(k) : k[i] \in DigitChars
  /\ (Len(k) > 1 => k[1] # "0")

RECURSIVE DigitsValue(_)
DigitsValue(s) ==
  IF s = <<>> THEN 0
  ELSE DigitsValue(SubSeq(s, 1, Len(s) - 1)) * 10
         + (CHOOSE d \in 0..9 : DigitSeq[d + 1] = s[Len(s)])

RECURSIVE SelectFields(_, _)
SelectFields(fs, index) ==
  IF fs = <<>> THEN <<>>
  ELSE IF IsIndexKey(fs[1][1]) = index
       THEN <<fs[1]>> \o SelectFields(Tail(fs), index)
       ELSE SelectFields(Tail(fs), index)

RECURSIVE SortByIndex(_)
SortByIndex(fs) ==
  IF fs = <<>> THEN <<>>
  ELSE LET m == CHOOSE i \in 1..Len(fs) :
                  \A j \in 1..Len(fs) :
                    DigitsValue(fs[i][1]) <= DigitsValue(fs[j][1])
       IN <<fs[m]>> \o SortByIndex(SubSeq(fs, 1, m - 1)
                                    \o SubSeq(fs, m + 1, Len(fs)))

(* variant: the fields as inserted *)
EntriesAsInserted(node) == Fields(node)

(* Object.entries(node): index keys ascending, then the other keys in      *)
(* insertion order                                                         *)
Entries(node) ==
  SortByIndex(SelectFields(Fields(node), TRUE))
    \o SelectFields(Fields(node), FALSE)

(* String(v) *)
RECURSIVE JsString(_)
JsString(node) ==
  CASE node.t = "null" -> S_null
    [] node.t = "bool" -> IF node.b THEN S_true ELSE S_false
    [] node.t = "num"  -> NumText(node.n)
    [] node.t = "str"  -> node.s
    [] node.t = "arr"  ->
         Join([i \in 1..Len(node.c) |->
                 IF node.c[i].t = "null" THEN <<>> ELSE JsString(node.c[i])],
              <<",">>)
    [] OTHER           -> S_object

(* data.id, when data is an object that has the property *)
HasField(node, k) ==
  node.t = "obj" /\ \E i \in 1..Len(node.ks) : node.ks[i] = k

FieldOf(node, k) ==
  node.c[CHOOSE i \in 1..Len(node.ks) : node.ks[i] = k]

(* const idLabel = (data && data.id != null) ? String(data.id) : undefined *)
idLabel(data) ==
  IF HasField(data, S_id) /\ FieldOf(data, S_id).t # "null"
  THEN [def |-> TRUE, s |-> JsString(FieldOf(data, S_id))]
  ELSE [def |-> FALSE, s |-> <<>>]

(* ------------------------------- toSnake ------------------------------- *)
(* .replace(/([a-z0-9])([A-Z])/g, '$1_$2') *)
RECURSIVE CamelSplit(_)
CamelSplit(s) ==
  IF Len(s) < 2 THEN s
  ELSE IF s[1] \in (LowerChars \cup DigitChars) /\ s[2] \in UpperChars
       THEN <<s[1], "_", s[2]>> \o CamelSplit(SubSeq(s, 3, Len(s)))
       ELSE <<s[1]>> \o CamelSplit(Tail(s))

(* .replace(/[^a-zA-Z0-9_]/g, '_') *)
RECURSIVE AllowedOnly(_)
AllowedOnly(s) ==
  IF s = <<>> THEN <<>>
  ELSE <<IF s[1] \in (LowerChars \cup UpperChars \cup DigitChars \cup {"_"})
         THEN s[1] ELSE "_">> \o AllowedOnly(Tail(s))

(* variant: runs of '_' are kept *)
CollapseNone(s) == s

(* .replace(/_{2,}/g, '_') *)
RECURSIVE Collapse(_)
Collapse(s) ==
  IF Len(s) < 2 THEN s
  ELSE IF s[1] = "_" /\ s[2] = "_" THEN Collapse(Tail(s))
       ELSE <<s[1]>> \o Collapse(Tail(s))

(* .replace(/^_+|_+$/g, '') *)
RECURSIVE TrimEdges(_)
TrimEdges(s) ==
  IF s = <<>> THEN s
  ELSE IF s[1] = "_" THEN TrimEdges(Tail(s))
  ELSE IF s[Len(s)] = "_" THEN TrimEdges(SubSeq(s, 1, Len(s) - 1))
  ELSE s

RECURSIVE LowerCase(_)
LowerCase(s) ==
  IF s = <<>> THEN <<>> ELSE <<ToLower(s[1])>> \o LowerCase(Tail(s))

toSnake(key) == LowerCase(TrimEdges(Collapse(AllowedOnly(CamelSplit(key)))))

(* ------------------------- isNumericLike / toNumber -------------------- *)
RECURSIVE TrimWhite(_)
TrimWhite(s) ==
  IF s = <<>> THEN s
  ELSE IF s[1] \in WhiteChars THEN TrimWhite(Tail(s))
  ELSE IF s[Len(s)] \in WhiteChars THEN TrimWhite(SubSeq(s, 1, Len(s) - 1))
  ELSE s

AllDigits(s) == s # <<>> /\ \A i \in 1..Len(s) : s[i] \in DigitChars

(* Number(v) for a string v made of digits, white space, '-' and          *)
(* characters that occur in no numeric literal: white space is trimmed,    *)
(* the empty string is 0, a decimal numeral (with an optional '-') is its  *)
(* value, anything else is NaN                                             *)
Number(s) ==
  LET t == TrimWhite(s) IN
  IF t = <<>> THEN [finite |-> TRUE, n |-> 0]
  ELSE IF AllDigits(t) THEN [finite |-> TRUE, n |-> DigitsValue(t)]
  ELSE IF t[1] = "-" /\ AllDigits(Tail(t))
       THEN [finite |-> TRUE, n |-> 0 - DigitsValue(Tail(t))]
  ELSE [finite |-> FALSE, n |-> 0]

isNumericLike(node) ==
  CASE node.t = "num" -> TRUE
    [] node.t = "str" -> Number(node.s).finite
    [] OTHER          -> FALSE

toNumber(node) == IF node.t = "num" THEN node.n ELSE Number(node.s).n

(* ------------------------------- escLabel ------------------------------ *)
RECURSIVE ReplaceChar(_, _, _)
ReplaceChar(s, ch, with) ==
  IF s = <<>> THEN <<>>
  ELSE (IF s[1] = ch THEN with ELSE <<s[1]>>)
         \o ReplaceChar(Tail(s), ch, with)

(* variant: label values are written as they are *)
escLabelPlain(s) == s

escLabel(s) ==
  ReplaceChar(ReplaceChar(ReplaceChar(s, "\\", <<"\\", "\\">>),
                          "\"", <<"\\", "\"">>),
              "\n", <<"\\", "n">>)

(* ------------------------------- labels -------------------------------- *)
(* labels[k] = val on an object kept as <<key, value>> pairs in property   *)
(* order: an existing key keeps its place                                  *)
SetLabel(labels, k, val) ==
  IF \E i \in 1..Len(labels) : labels[i][1] = k
  THEN [i \in 1..Len(labels) |->
          IF labels[i][1] = k THEN <<k, val>> ELSE labels[i]]
  ELSE labels \o << <<k, val>> >>

(* Object.assign(target, source) *)
RECURSIVE Assign(_, _)
Assign(target, source) ==
  IF source = <<>> THEN target
  ELSE Assign(SetLabel(target, source[1][1], source[1][2]), Tail(source))

HasLabel(labels, k) == \E i \in 1..Len(labels) : labels[i][1] = k

LabelValue(labels, k) ==
  labels[CHOOSE i \in 1..Len(labels) : labels[i][1] = k][2]

(* labelKeys.map(k => `${toSnake(k)}="${escLabel(labels[k])}"`) *)
RECURSIVE LabelTexts(_)
LabelTexts(labels) ==
  IF labels = <<>> THEN <<>>
  ELSE <<toSnake(labels[1][1]) \o <<"=", "\"">> \o escLabel(labels[1][2])
           \o <<"\"">> >> \o LabelTexts(Tail(labels))

labelStr(labels) ==
  IF labels = <<>> THEN <<>>
  ELSE <<"{">> \o Join(LabelTexts(labels), <<",">>) \o <<"}">>

(* --------------------- ensureHeaders / emitSample ---------------------- *)
(* st = [lines, emittedHeaders]; ctx = [prefix, id]                        *)
(* variant: the set of the call before is kept *)
NewSetKept(old) == old

(* const emittedHeaders = new Set() *)
NewSet(old) == {}

NoLines == [lines |-> <<>>, emittedHeaders |-> NewSet(encHeaders)]

(* variant: no header is remembered *)
HeaderEmittedNever(full, headers) == FALSE

(* emittedHeaders.has(full) *)
HeaderEmitted(full, headers) == full \in headers

ensureHeaders(st, ctx, metricName) ==
  LET full == ctx.prefix \o metricName IN
  IF HeaderEmitted(full, st.emittedHeaders) THEN st
  ELSE [lines |-> Append(st.lines,
                    [kind |-> "type", metric |-> full, labels |-> <<>>,
                     value |-> 0, text |-> S_type \o full \o S_gauge]),
        emittedHeaders |-> st.emittedHeaders \cup {full}]

emitSample(st, ctx, metricName, extraLabels, value) ==
  LET st1    == ensureHeaders(st, ctx, metricName)
      labels == IF ctx.id.def THEN SetLabel(extraLabels, S_id, ctx.id.s)
                ELSE extraLabels
  IN [lines |-> Append(st1.lines,
                  [kind |-> "sample", metric |-> ctx.prefix \o metricName,
                   labels |-> labels, value |-> value,
                   text |-> ctx.prefix \o metricName \o labelStr(labels)
                              \o <<" ">> \o NumText(value)]),
      emittedHeaders |-> st1.emittedHeaders]

(* ----------------------------- deriveMetric ---------------------------- *)
RECURSIVE MapSnake(_)
MapSnake(path) ==
  IF path = <<>> THEN <<>> ELSE <<toSnake(path[1])>> \o MapSnake(Tail(path))

(* variant: every path segment goes into the name label *)
NameSegmentsAll(path) == path

(* path.slice(1) *)
NameSegments(path) == Tail(path)

(* nameLabel is undefined (def = FALSE) for a path of one segment *)
deriveMetric(path) ==
  IF path = <<>>
  THEN [metric |-> S_root, def |-> FALSE, nameLabel |-> <<>>]
  ELSE [metric |-> toSnake(path[1]),
        def |-> Len(path) > 1,
        nameLabel |-> IF Len(path) > 1
                      THEN Join(MapSnake(NameSegments(path)), <<"_">>)
                      ELSE <<>>]

(* if (nameLabel) labels.name = nameLabel: undefined and '' are falsy *)
WithName(labels, d) ==
  IF d.def /\ d.nameLabel # <<>> THEN SetLabel(labels, S_name, d.nameLabel)
  ELSE labels

(* -------------------------- emitPrimitiveAtPath ------------------------ *)
emitPrimitiveAtPath(st, ctx, path, extraLabels, valueNode) ==
  LET d      == deriveMetric(path)
      labels == WithName(extraLabels, d)
  IN IF valueNode.t = "bool"
     THEN emitSample(st, ctx, d.metric, labels, IF valueNode.b THEN 1 ELSE 0)
     ELSE IF isNumericLike(valueNode)
     THEN emitSample(st, ctx, d.metric, labels, toNumber(valueNode))
     ELSE emitSample(st, ctx, d.metric,
                     SetLabel(labels, S_value, JsString(valueNode)), 1)

(* --------------------------------- walk -------------------------------- *)
(* variant: no key is skipped *)
IsSkippedKeyNever(k) == FALSE

(* if (k === 'id') continue *)
IsSkippedKey(k) == k = S_id

IndexLabel(i) == << <<S_index, NumText(i)>> >>

RECURSIVE rec(_, _, _, _, _, _)
RECURSIVE recElements(_, _, _, _, _, _, _)
RECURSIVE recFields(_, _, _, _, _, _, _)

(* const rec = (obj, subPath, extraLabels) => ..., inside walk(node, path) *)
rec(st, ctx, path, obj, subPath, extraLabels) ==
  IF IsNull(obj) THEN st
  ELSE IF IsPrimitive(obj)
  THEN emitPrimitiveAtPath(st, ctx, path \o subPath, extraLabels, obj)
  ELSE IF obj.t = "arr"
  THEN recElements(st, ctx, path, obj.c, 1, subPath, extraLabels)
  ELSE recFields(st, ctx, path, Entries(obj), 1, subPath, extraLabels)

(* obj.forEach((v, i2) => ...) *)
recElements(st, ctx, path, elems, i, subPath, extraLabels) ==
  IF i > Len(elems) THEN st
  ELSE LET v  == elems[i]
           ls == Assign(IndexLabel(i - 1), extraLabels)
           st1 == IF IsNull(v) THEN st
                  ELSE IF v.t \in {"arr", "obj"}
                  THEN rec(st, ctx, path, v, subPath, ls)
                  ELSE emitPrimitiveAtPath(st, ctx, path \o subPath, ls, v)
       IN recElements(st1, ctx, path, elems, i + 1, subPath, extraLabels)

(* for (const [k, v] of Object.entries(obj)) *)
recFields(st, ctx, path, fields, i, subPath, extraLabels) ==
  IF i > Len(fields) THEN st
  ELSE LET k   == fields[i][1]
           st1 == IF IsSkippedKey(k) THEN st
                  ELSE rec(st, ctx, path, fields[i][2], Append(subPath, k),
                           extraLabels)
       IN recFields(st1, ctx, path, fields, i + 1, subPath, extraLabels)

RECURSIVE walk(_, _, _, _)
RECURSIVE walkElements(_, _, _, _, _)
RECURSIVE walkFields(_, _, _, _, _)

walk(st, ctx, node, path) ==
  IF IsNull(node) THEN st
  ELSE IF IsPrimitive(node)
  THEN emitPrimitiveAtPath(st, ctx, path, <<>>, node)
  ELSE IF node.t = "arr"
  THEN IF Len(node.c) = 0
       THEN LET d == deriveMetric(path) IN
            emitSample(st, ctx, d.metric,
                       SetLabel(WithName(<<>>, d), S_value, S_none), 1)
       ELSE walkElements(st, ctx, node.c, 1, path)
  ELSE walkFields(st, ctx, Entries(node), 1, path)

(* node.forEach((el, idx) => ...) *)
walkElements(st, ctx, elems, i, path) ==
  IF i > Len(elems) THEN st
  ELSE LET el  == elems[i]
           st1 == IF IsNull(el) THEN st
                  ELSE IF el.t \in {"arr", "obj"}
                  THEN rec(st, ctx, path, el, <<>>, IndexLabel(i - 1))
                  ELSE emitPrimitiveAtPath(st, ctx, path, IndexLabel(i - 1), el)
       IN walkElements(st1, ctx, elems, i + 1, path)

(* for (const [k, v] of Object.entries(node)) *)
walkFields(st, ctx, fields, i, path) ==
  IF i > Len(fields) THEN st
  ELSE LET k   == fields[i][1]
           st1 == IF IsSkippedKey(k) THEN st
                  ELSE walk(st, ctx, fields[i][2], Append(path, k))
       IN walkFields(st1, ctx, fields, i + 1, path)

RECURSIVE LineTexts(_)
LineTexts(lines) ==
  IF lines = <<>> THEN <<>>
  ELSE <<lines[1].text>> \o LineTexts(Tail(lines))

(* the lines pushed by walk(data) for a given id label *)
linesOf(id, data, prefix) ==
  walk(NoLines, [prefix |-> prefix, id |-> id], data, <<>>).lines

(* return lines.join('\n') + (lines.length ? '\n' : '') *)
jsonToPrometheus(data, prefix) ==
  LET lines == linesOf(idLabel(data), data, prefix) IN
  [lines |-> lines,
   text  |-> Join(LineTexts(lines), <<"\n">>)
               \o (IF lines # <<>> THEN <<"\n">> ELSE <<>>)]

(* ---------------------------- encoder inputs --------------------------- *)
TreeLeaves == {JNull, JNum(1), JStr(<<"x">>)}
TreeKeys   == {<<"a">>, <<"b">>, S_id}
ValueChars == {"0", "1", "z", " ", "-", "\\", "\"", "\n"}
KeyChars   == {"a", "B", "1", "_", "-"}
NumLeaves  == {JNum(0), JNum(1), JNum(12), JNum(0 - 1)}

RECURSIVE StringsUpTo(_, _)
StringsUpTo(chars, n) ==
  IF n = 0 THEN {<<>>}
  ELSE LET shorter == StringsUpTo(chars, n - 1) IN
       shorter \cup {Append(s, ch) : s \in shorter, ch \in chars}

Range(s) == {s[i] : i \in 1..Len(s)}

(* sequences of k different keys *)
RECURSIVE KeySeqs(_, _)
KeySeqs(keys, k) ==
  IF k = 0 THEN {<<>>}
  ELSE UNION {{Append(s, x) : x \in keys \ Range(s)} : s \in KeySeqs(keys, k - 1)}

RECURSIVE Trees(_)
RECURSIVE Forests(_, _)

(* the sequences of k values that have n nodes in total *)
Forests(k, n) ==
  IF k = 0 THEN (IF n = 0 THEN {<<>>} ELSE {})
  ELSE UNION {{<<tr>> \o f : tr \in Trees(j), f \in Forests(k - 1, n - j)} :
                j \in 1..(n - (k - 1))}

(* the JSON values with exactly n nodes *)
Trees(n) ==
  IF n = 1 THEN TreeLeaves \cup {JArr(<<>>), JObj(<<>>)}
  ELSE UNION {LET fs == Forests(k, n - 1) IN
              {JArr(f) : f \in fs}
                \cup {JObjOf(ks, f) : ks \in KeySeqs(TreeKeys, k), f \in fs} :
              k \in 1..(n - 1)}

(* the JSON values of at most n nodes *)
TreeInputs(n) == UNION {Trees(k) : k \in 1..n}

(* one field a holding each leaf considered *)
LeafInputs(len) ==
  {JObj(<< <<(<<"a">>), leaf>> >>) :
     leaf \in {JStr(s) : s \in StringsUpTo(ValueChars, len)}
                \cup NumLeaves \cup {JBool(TRUE), JBool(FALSE)}}

(* each key considered as a field of the root and as a field of a nested   *)
(* object, and each shorter key next to each other shorter key             *)
KeyInputs(len) ==
  LET keys    == StringsUpTo(KeyChars, len)
      shorter == StringsUpTo(KeyChars, len - 2)
  IN {JObj(<< <<k, JNum(1)>> >>) : k \in keys}
       \cup {JObj(<< <<(<<"a">>), JObj(<< <<k, JNum(1)>> >>)>> >>) : k \in keys}
       \cup {JObj(<< <<ks[1], JNum(1)>>, <<ks[2], JStr(<<"x">>)>> >>) :
               ks \in KeySeqs(shorter, 2)}

(* each string considered as the id of an object with one string field *)
IdInputs(len) ==
  {JObj(<< <<S_id, JStr(s)>>, <<(<<"a">>), JStr(<<"z">>)>> >>) :
     s \in StringsUpTo(ValueChars, len)}

(* the inputs the documentation of the encoder gives as examples *)
ExampleInputs ==
  {JObj(<< <<(<<"a">>), JArr(<<JNum(1), JNum(2)>>)>> >>),
   JObj(<< <<(<<"a">>), JArr(<<>>)>> >>),
   JObj(<< <<(<<"a">>), JObj(<< <<(<<"b">>), JNum(1)>> >>)>> >>),
   JObj(<< <<S_id, JStr(<<"x">>)>>, <<(<<"a">>), JNum(1)>> >>)}

(* the inputs of the call made besides those on encIn *)
OtherInputs ==
  {JObj(<< <<(<<"a">>), JObj(<< <<(<<"b">>), JNum(1)>> >>)>> >>),
   JObj(<< <<S_id, JStr(<<"x">>)>>, <<(<<"a">>), JNum(1)>> >>)}

(* ------------------------- encoder specification ----------------------- *)
(* jsonToPrometheus(data, prefix) is called on each input considered,      *)
(* then once more on the same input; one call on another input may come    *)
(* between the two                                                         *)
EncInit ==
  /\ SessionInit
  /\ \/ encIn \in TreeInputs(MaxNodes)
     \/ encIn \in LeafInputs(MaxStrLen)
     \/ encIn \in KeyInputs(MaxKeyLen)
     \/ encIn \in IdInputs(MaxStrLen)
     \/ encIn \in ExampleInputs
  /\ encOut = NoOutput
  /\ encPc = "called"
  /\ encHeaders = {}
  /\ encOther = NoCall
  /\ encAgain = NoOutput
  /\ ScrapeIdle

(* the emittedHeaders a call leaves behind *)
HeadersOf(lines) ==
  {lines[i].metric : i \in {j \in 1..Len(lines) : lines[j].kind = "type"}}

encode ==
  /\ encPc = "called"
  /\ encOut' = jsonToPrometheus(encIn, Prefix)
  /\ encHeaders' = HeadersOf(encOut'.lines) \cup NewSet(encHeaders)
  /\ encPc' = "returned"
  /\ UNCHANGED <<encIn, encOther, encAgain, sessionVars, scrapeVars>>

encodeOther ==
  /\ encPc = "returned"
  /\ encOther = NoCall
  /\ \E other \in OtherInputs :
       /\ encOther' = other
       /\ encHeaders' = HeadersOf(jsonToPrometheus(other, Prefix).lines)
                          \cup NewSet(encHeaders)
  /\ UNCHANGED <<encIn, encOut, encPc, encAgain, sessionVars, scrapeVars>>

encodeAgain ==
  /\ encPc = "returned"
  /\ encAgain' = jsonToPrometheus(encIn, Prefix)
  /\ encHeaders' = HeadersOf(encAgain'.lines) \cup NewSet(encHeaders)
  /\ encPc' = "again"
  /\ UNCHANGED <<encIn, encOut, encOther, sessionVars, scrapeVars>>

EncNext == encode \/ encodeOther \/ encodeAgain

EncSpec == EncInit /\ [][EncNext]_vars

(* ============================ snapshot parsing ========================= *)
(* The end of extractJsonFromPage and of the /metrics handler as functions *)
(* of the page text.  The trimmed text is a sequence of lexical pieces:    *)
(* "{" and "}", "k" for a quoted key with its colon ("a":), "1" for the    *)
(* number 1, "n" for null and "x" for a word that is no JSON.              *)

MaxTextLen == 6   \* pieces of a generated page text

TextPieces == {"{", "}", "k", "1", "n", "x"}

ParseFailed == [ok |-> FALSE, val |-> JNull, rest |-> <<>>]

(* the JSON value at the head of the pieces, and the pieces after it *)
RECURSIVE ParseValue(_)
ParseValue(ts) ==
  IF ts = <<>> THEN ParseFailed
  ELSE IF ts[1] = "1"
  THEN [ok |-> TRUE, val |-> JNum(1), rest |-> Tail(ts)]
  ELSE IF ts[1] = "n"
  THEN [ok |-> TRUE, val |-> JNull, rest |-> Tail(ts)]
  ELSE IF ts[1] = "{" /\ Len(ts) >= 2 /\ ts[2] = "}"
  THEN [ok |-> TRUE, val |-> JObj(<<>>), rest |-> SubSeq(ts, 3, Len(ts))]
  ELSE IF ts[1] = "{" /\ Len(ts) >= 2 /\ ts[2] = "k"
  THEN LET m == ParseValue(SubSeq(ts, 3, Len(ts))) IN
       IF m.ok /\ m.rest # <<>> /\ m.rest[1] = "}"
       THEN [ok |-> TRUE, val |-> JObj(<< <<(<<"a">>), m.val>> >>),
             rest |-> Tail(m.rest)]
       ELSE ParseFailed
  ELSE ParseFailed

(* JSON.parse(text): the whole text is one value, or it throws *)
JSONparse(ts) ==
  LET r == ParseValue(ts) IN
  IF r.ok /\ r.rest = <<>> THEN [ok |-> TRUE, val |-> r.val]
  ELSE [ok |-> FALSE, val |-> JNull]

(* text.match(/\{[\s\S]*\}$/): from the first "{" to the end of a text     *)
(* that ends with "}"                                                      *)
HasMatch(ts) == ts[Len(ts)] = "}" /\ \E i \in 1..Len(ts) : ts[i] = "{"

Match(ts) ==
  SubSeq(ts, CHOOSE i \in 1..Len(ts) :
               ts[i] = "{" /\ \A j \in 1..(i - 1) : ts[j] # "{", Len(ts))

(* try JSON.parse(text), catch: JSON.parse(m[0]), else throw *)
parseText(ts) ==
  IF JSONparse(ts).ok THEN JSONparse(ts)
  ELSE IF HasMatch(ts) /\ JSONparse(Match(ts)).ok THEN JSONparse(Match(ts))
  ELSE [ok |-> FALSE, val |-> JNull]

S_request_ms ==
  <<"e", "x", "p", "o", "r", "t", "e", "r", "_", "r", "e", "q", "u", "e", "s",
    "t", "_", "m", "s">>

ElapsedMs == {0, 12}

(* data.exporter_request_ms = ms in a module that is not in strict mode:   *)
(* it throws on null, does nothing on a primitive, sets the property of an *)
(* object, an array keeping its elements                                   *)
SetRequestMs(data, ms) ==
  IF data.t = "null" THEN [threw |-> TRUE, data |-> data]
  ELSE IF data.t # "obj" THEN [threw |-> FALSE, data |-> data]
  ELSE [threw |-> FALSE,
        data |-> JObj(SetLabel(Fields(data), S_request_ms, JNum(ms)))]

RECURSIVE TextsUpTo(_)
TextsUpTo(n) ==
  IF n = 1 THEN {<<p>> : p \in TextPieces}
  ELSE LET shorter == TextsUpTo(n - 1) IN
       shorter \cup {Append(ts, p) : ts \in shorter, p \in TextPieces}

ScrapeInit ==
  /\ SessionInit
  /\ EncIdle
  /\ pageText \in TextsUpTo(MaxTextLen)
  /\ scrapePc = "read"
  /\ scrapeData = NoCall
  /\ scrapeBody = NoOutput

(* extractJsonFromPage from the read result on: return or throw *)
scrapeParse ==
  /\ scrapePc = "read"
  /\ LET r == parseText(pageText) IN
     /\ scrapePc' = IF r.ok THEN "parsed" ELSE "failed_parse"
     /\ scrapeData' = IF r.ok THEN r.val ELSE NoCall
  /\ UNCHANGED <<pageText, scrapeBody, sessionVars, encVars>>

(* the handler after extractJsonFromPage returned *)
scrapeRespond ==
  /\ scrapePc = "parsed"
  /\ \E ms \in ElapsedMs :
       LET set == SetRequestMs(scrapeData, ms) IN
       /\ scrapePc' = IF set.threw THEN "sent500" ELSE "sent200"
       /\ scrapeData' = set.data
       /\ scrapeBody' = IF set.threw THEN NoOutput
                        ELSE jsonToPrometheus(set.data, Prefix)
  /\ UNCHANGED <<pageText, sessionVars, encVars>>

(* the handler after extractJsonFromPage threw *)
scrapeFailed ==
  /\ scrapePc = "failed_parse"
  /\ scrapePc' = "sent500"
  /\ UNCHANGED <<pageText, scrapeData, scrapeBody, sessionVars, encVars>>

ScrapeNext == scrapeParse \/ scrapeRespond \/ scrapeFailed

ScrapeSpec == ScrapeInit /\ [][ScrapeNext]_vars

(* ============================ properties =============================== *)

(* call c has the command (method, expr) registered in table infl and      *)
(* unanswered on the socket w                                              *)
HasPending(c, method, expr, infl, w) ==
  \E x \in w : /\ x.method = method
               /\ x.expr = expr
               /\ x.id \in DOMAIN infl
               /\ infl[x.id] = CallOwner(c)

(* C1: after any extractJsonFromPage call has finished by returning a      *)
(* snapshot, by the mutation-wait timeout or by a parse failure, a         *)
(* Debugger.pause was sent after that call's Debugger.resume.              *)
C1_PausedWhenCallFinished ==
  \A c \in Calls :
    callPc[c] \in {"returned", "failed_timeout", "failed_parse"}
      => pausedSince[c]

(* C2: at most one extractJsonFromPage call is in flight at any time.      *)
C2_OneCallInFlight ==
  Cardinality({c \in Calls : callPc[c] \in CallInFlight}) <= 1

(* C3: within one call the order is: record target = counter + 2 and send  *)
(* Debugger.resume; after its response wait; send the read only when the   *)
(* counter has reached the target; send Debugger.pause only after the      *)
(* read's response has arrived.                                            *)
C3_StepOrder ==
  [][\A c \in Calls :
       /\ (callPc[c] # "resume" /\ callPc'[c] = "resume")
            => /\ callPc[c] = "idle"
               /\ targetCounter'[c] = changeEventCounter + 2
               /\ HasPending(c, "Debugger.resume", "", inflight', wire')
       /\ (callPc[c] # "wait" /\ callPc'[c] = "wait")
            => /\ callPc[c] = "resume"
               /\ ~HasPending(c, "Debugger.resume", "", inflight', wire')
               /\ changeEventCounter' < targetCounter[c]
       /\ (callPc[c] # "read" /\ callPc'[c] = "read")
            => /\ callPc[c] \in {"resume", "wait"}
               /\ ~HasPending(c, "Debugger.resume", "", inflight', wire')
               /\ changeEventCounter' >= targetCounter[c]
               /\ HasPending(c, "Runtime.evaluate", "read", inflight', wire')
               /\ ~HasPending(c, "Debugger.pause", "", inflight', wire')
       /\ (callPc[c] # "pause" /\ callPc'[c] = "pause")
            => /\ callPc[c] = "read"
               /\ callRes'[c] \in ReadKinds
               /\ ~HasPending(c, "Runtime.evaluate", "read", inflight', wire')
               /\ HasPending(c, "Debugger.pause", "", inflight', wire')
       /\ (callPc[c] # "returned" /\ callPc'[c] = "returned")
            => callPc[c] = "pause"
    ]_vars

(* a call went through all steps and returned a snapshot *)
C3_Witness ==
  \E c \in Calls : callPc[c] = "returned" /\ callMsgs[c] >= MutationsToWait

(* C4: every call that returns a snapshot has seen at least two separate   *)
(* '__JSON_CHANGED__' messages between its resume and its read.            *)
C4_TwoMessagesBeforeRead ==
  \A c \in Calls : callPc[c] = "returned" => callMsgs[c] >= MutationsToWait

(* the awaiting continuation of owner o sees its command rejected *)
RejectedStep(o) ==
  CASE o.k = "init" -> initPc' = "failed"
    [] o.k = "page" -> pagePc'[o.i] = "failed"
    [] OTHER        -> callPc'[o.i] \in {"failed_resume", "failed_read",
                                         "failed_pause"}

(* C5: whatever the arrival order of the responses, a pending call is      *)
(* fulfilled only by the response that carries its own id.                 *)
C5_Correlation ==
  [][\A k \in DOMAIN inflight :
       (k \notin DOMAIN inflight' /\ ~RejectedStep(inflight[k]))
         => /\ \E w \in wire : w.id = k /\ w \notin wire'
            /\ \A w \in wire : w \notin wire' => w.id = k
    ]_vars

(* a later command has been answered while an earlier one is still pending *)
C5_Witness ==
  /\ wsState = "open"
  /\ sendErrors = 0
  /\ \E k \in DOMAIN inflight :
       /\ k + 1 < nextId
       /\ (k + 1) \notin DOMAIN inflight
       /\ \E w \in wire : w.id = k

(* C6: once the socket has closed the pending-call table is empty and no   *)
(* continuation is left waiting for a command; the calls pending at the    *)
(* moment of closure are rejected.                                         *)
C6_ClosedSettlesAll ==
  /\ [](wsState = "closed" =>
          /\ DOMAIN inflight = {}
          /\ initPc \notin InitAwaiting
          /\ \A p \in Pages : pagePc[p] \notin PageAwaiting
          /\ \A c \in Calls : callPc[c] \notin CallAwaiting)
  /\ [][(wsState = "open" /\ wsState' = "closed")
          => \A k \in DOMAIN inflight : RejectedStep(inflight[k])]_vars

(* the socket closed while a scrape had a command pending *)
C6_Witness ==
  /\ wsState = "closed"
  /\ sendErrors = 0
  /\ \E c \in Calls :
       callPc[c] \in {"failed_resume", "failed_read", "failed_pause"}

C8_OneIncrementPerMessage ==
  [][changesFired' = changesFired + 1
       => changeEventCounter' = changeEventCounter + 1]_vars

(* C9: when the read command of a call is rejected, a Debugger.pause has   *)
(* been sent after the call's resume before the failure is raised.         *)
C9_PausedAfterReadFailure ==
  \A c \in Calls : callPc[c] = "failed_read" => pausedSince[c]

(* C10: every call in flight eventually returns or fails (unless the       *)
(* process is shut down first).                                            *)
C10_CallTerminates ==
  \A c \in Calls :
    (callPc[c] \in CallInFlight)
      ~> (callPc[c] \in CallFinished \/ procPc # "running")

(* C11: in the step in which initBrowser completes because the first       *)
(* Page.loadEventFired was observed, the change listener is registered and *)
(* a Debugger.pause has been sent for the loaded page.                     *)
C11_PausedWhenStarted ==
  [][(initPc = "waitLoad" /\ initPc' = "ready" /\ loadsFired' = loadsFired + 1)
       => /\ changeListenerRegistered'
          /\ \E p \in Pages : pagePc'[p] \in {"pause", "done"}
    ]_vars

(* C12: every Page.loadEventFired delivered after Page.enable took effect  *)
(* has started an initializePageListener run, the only code that           *)
(* re-injects the observer and pauses the page.                            *)
C12_LoadStartsRearm ==
  \A p \in Pages : p <= loadsFired => pagePc[p] # "idle"

(* C13: once initBrowser waits for the first page load it cannot fail: it  *)
(* completes, and only by the observed notification or by the 15 s timer,  *)
(* which is armed for as long as it waits, whatever the socket does.       *)
C13_StartCompletes ==
  /\ [][initPc = "waitLoad" => initPc' \in {"waitLoad", "ready"}]_vars
  /\ [][(initPc = "waitLoad" /\ initPc' = "ready")
          => /\ browserReady'
             /\ \/ loadsFired' = loadsFired + 1
                \/ UNCHANGED <<wsState, rpcVars, remoteVars>>]_vars
  /\ []((initPc = "waitLoad" /\ procPc = "running") => ENABLED InitTimeout)

(* with timers that fire, initBrowser does complete (unless the process is *)
(* shut down first)                                                        *)
StartEventuallyCompletes ==
  (initPc = "waitLoad") ~> (initPc = "ready" \/ procPc # "running")

(* initBrowser has returned although no load notification ever arrived *)
C13_Witness ==
  initPc = "ready" /\ browserReady /\ loadsFired = 0

(* C14: after the socket has closed it stays closed; no pending call is    *)
(* left; a call started later fails at its first command without writing   *)
(* it; no call returns a snapshot any more; a call that was in progress    *)
(* has failed or waits for mutations with its 10 s timer armed, and then   *)
(* can only fail.                                                          *)
C14_ClosedFailsCalls ==
  /\ [](wsState = "closed" =>
          /\ DOMAIN inflight = {}
          /\ \A c \in Calls : callPc[c] \notin CallAwaiting)
  /\ [][wsState = "closed" =>
          /\ wsState' = "closed"
          /\ \A c \in Calls :
               /\ (callPc[c] = "idle" /\ callPc'[c] # "idle")
                    => /\ callPc'[c] \in {"failed_resume", "rejected503"}
                       /\ inflight' = inflight
                       /\ wire' = wire
               /\ callPc'[c] = "returned" => callPc[c] = "returned"
               /\ callPc[c] = "wait"
                    => callPc'[c] \in {"wait", "failed_timeout"}]_vars
  /\ [](\A c \in Calls :
          (wsState = "closed" /\ callPc[c] = "wait" /\ procPc = "running")
            => ENABLED (Timeout /\ callPc'[c] = "failed_timeout"))

(* with timers that fire, a call in progress when the socket closed does   *)
(* fail (unless the process is shut down first)                            *)
InProgressCallEventuallyFails ==
  \A c \in Calls :
    (wsState = "closed" /\ callPc[c] \in CallInFlight)
      ~> (callPc[c] \in CallFailed \/ procPc # "running")

(* after the socket closed, a call that was waiting for mutations timed    *)
(* out and a call started afterwards failed at its resume                  *)
C14_Witness ==
  /\ wsState = "closed"
  /\ DOMAIN inflight = {}
  /\ \E c, d \in Calls : /\ callPc[c] = "failed_timeout"
                         /\ callPc[d] = "failed_resume"
                         /\ sendErrors = 0

(* C15: every id written to the socket is the value of nextId at the send, *)
(* nextId then grows, so ids increase strictly in send order; the commands *)
(* outstanding at one time have pairwise different ids.                    *)
C15_IdsIncreaseUnique ==
  /\ [](/\ \A w \in wire : w.id < nextId
        /\ \A k \in DOMAIN inflight : k < nextId
        /\ \A a, b \in wire : a.id = b.id => a = b)
  /\ [][/\ nextId' >= nextId
        /\ \A w \in wire' \ wire :
             /\ w.id = nextId
             /\ nextId' > nextId
             /\ \A v \in wire : v.id < w.id
             /\ \A k \in DOMAIN inflight : k < w.id]_vars

(* three commands are outstanding at the same time *)
C15_Witness ==
  /\ Cardinality(wire) >= 3
  /\ Cardinality(DOMAIN inflight) >= 3

(* C16: the second run of cleanup (the 'exit' handler after a signal       *)
(* handler) changes nothing; after the first run the socket is no longer   *)
(* open or connecting and the browser process is gone.                     *)
C16_CleanupIdempotent ==
  /\ [](procPc # "running" =>
          /\ wsState \in {"closing", "closed"}
          /\ ~chromeAlive)
  /\ [][procPc = "exiting" =>
          UNCHANGED <<wsState, chromeAlive, chromeKilled, rpcVars, initVars,
                      listenerVars, pageVars, callVars, remoteVars>>]_vars

(* both runs of cleanup are over: one that killed the browser with the     *)
(* socket open *)
C16_Witness ==
  /\ procPc = "exited"
  /\ wsState = "closing"
  /\ chromeKilled

(* position of a call in the sequence of steps of extractJsonFromPage *)
CallRank(pc) ==
  CASE pc = "idle"   -> 0
    [] pc = "resume" -> 1
    [] pc = "wait"   -> 2
    [] pc = "read"   -> 3
    [] pc = "pause"  -> 4
    [] OTHER         -> 5

(* the commands (method, expr) of call c written to the socket in a step *)
NewCmds(c, method, expr) ==
  {w \in wire' \ wire : /\ w.method = method
                        /\ w.expr = expr
                        /\ w.id \in DOMAIN inflight'
                        /\ inflight'[w.id] = CallOwner(c)}

(* C17: a call never goes back to an earlier step and a finished call      *)
(* stays finished; its Debugger.resume is written only in its first step   *)
(* and its read only in the step that ends its wait, once each; the step   *)
(* in which it fails writes no command for it.                             *)
C17_NoRetry ==
  [][\A c \in Calls :
       /\ CallRank(callPc'[c]) >= CallRank(callPc[c])
       /\ CallRank(callPc[c]) = 5 => callPc'[c] = callPc[c]
       /\ NewCmds(c, "Debugger.resume", "") # {}
            => /\ callPc[c] = "idle" /\ callPc'[c] = "resume"
               /\ Cardinality(NewCmds(c, "Debugger.resume", "")) = 1
       /\ NewCmds(c, "Runtime.evaluate", "read") # {}
            => /\ callPc[c] \in {"resume", "wait"} /\ callPc'[c] = "read"
               /\ Cardinality(NewCmds(c, "Runtime.evaluate", "read")) = 1
       /\ (callPc[c] \notin CallFailed /\ callPc'[c] \in CallFailed)
            => \A w \in wire' \ wire :
                 w.id \in DOMAIN inflight' => inflight'[w.id] # CallOwner(c)
    ]_vars

(* one call failed by the mutation timeout, one by a parse failure or a    *)
(* rejected command, and nothing of either is outstanding                  *)
C17_Witness ==
  /\ wsState = "open"
  /\ \E c, d \in Calls :
       /\ callPc[c] = "failed_timeout"
       /\ callPc[d] \in CallFailed \ {"failed_timeout"}
  /\ \A k \in DOMAIN inflight : inflight[k].k # "call"

(* ---------------------- encoder: property helpers ---------------------- *)
(* the first call has returned and no other call was made *)
Returned == encPc = "returned" /\ encOther = NoCall

RECURSIVE Samples(_)
Samples(lines) ==
  IF lines = <<>> THEN <<>>
  ELSE (IF lines[1].kind = "sample" THEN <<lines[1]>> ELSE <<>>)
         \o Samples(Tail(lines))

EndsWith(s, suffix) ==
  /\ Len(s) >= Len(suffix)
  /\ SubSeq(s, Len(s) - Len(suffix) + 1, Len(s)) = suffix

(* the top-level value is an object whose field id is not null *)
HasTopId ==
  /\ encIn.t = "obj"
  /\ \E i \in 1..Len(encIn.ks) : encIn.ks[i] = S_id /\ encIn.c[i].t # "null"

TopId == encIn.c[CHOOSE i \in 1..Len(encIn.ks) : encIn.ks[i] = S_id]

(* the value without its fields named id, at every depth *)
RECURSIVE StripIds(_)
RECURSIVE StripAll(_)
RECURSIVE StripFields(_)
StripAll(vs) ==
  IF vs = <<>> THEN <<>> ELSE <<StripIds(vs[1])>> \o StripAll(Tail(vs))
StripFields(fs) ==
  IF fs = <<>> THEN <<>>
  ELSE (IF fs[1][1] = S_id THEN <<>>
        ELSE << <<fs[1][1], StripIds(fs[1][2])>> >>) \o StripFields(Tail(fs))
StripIds(node) ==
  CASE node.t = "arr" -> JArr(StripAll(node.c))
    [] node.t = "obj" -> JObj(StripFields(Fields(node)))
    [] OTHER          -> node

RECURSIVE NoArrays(_)
NoArrays(node) ==
  node.t # "arr" /\ \A i \in 1..Len(node.c) : NoArrays(node.c[i])

(* the <<path, value>> of every non-null primitive reached through objects *)
(* only, fields named id left out, in the order of Object.entries          *)
RECURSIVE ObjLeaves(_, _)
RECURSIVE FieldLeaves(_, _)
ObjLeaves(node, path) ==
  IF node.t = "null" THEN <<>>
  ELSE IF node.t = "obj" THEN FieldLeaves(Entries(node), path)
  ELSE << <<path, node>> >>
FieldLeaves(fs, path) ==
  IF fs = <<>> THEN <<>>
  ELSE (IF fs[1][1] = S_id THEN <<>>
        ELSE ObjLeaves(fs[1][2], Append(path, fs[1][1])))
         \o FieldLeaves(Tail(fs), path)

Field(k, val) == << <<k, val>> >>

(* C18: every sample carries the label id exactly when the top-level value *)
(* has a non-null field id, its value is that field's string form and it   *)
(* is written id="X" at the end of the label set; the lines are those of   *)
(* the same value with every field named id removed, so no such key, at    *)
(* any depth, produces a metric.  encode({id: "x", a: 1}) is the header    *)
(* of p_a and p_a{id="x"} 1.                                               *)
C18_IdLabel ==
  Returned =>
    /\ \A i \in 1..Len(encOut.lines) :
         LET l == encOut.lines[i] IN
         l.kind = "sample" =>
           /\ HasLabel(l.labels, S_id) <=> HasTopId
           /\ HasTopId =>
                /\ LabelValue(l.labels, S_id) = JsString(TopId)
                /\ EndsWith(l.text,
                            <<"i", "d", "=", "\"">> \o escLabel(JsString(TopId))
                              \o <<"\"", "}", " ">> \o NumText(l.value))
    /\ encOut.lines = linesOf(idLabel(encIn), StripIds(encIn), Prefix)
    /\ encIn = JObj(Field(S_id, JStr(<<"x">>)) \o Field(<<"a">>, JNum(1)))
         => LineTexts(encOut.lines)
              = << S_type \o <<"p", "_", "a">> \o S_gauge,
                   <<"p", "_", "a", "{", "i", "d", "=", "\"", "x", "\"", "}",
                     " ", "1">> >>

(* a value with a non-null id next to an array: its samples were emitted *)
C18_Witness ==
  /\ Returned
  /\ HasTopId
  /\ \E i \in 1..Len(encIn.c) : encIn.c[i].t = "arr"
  /\ \E i \in 1..Len(encOut.lines) :
       /\ encOut.lines[i].kind = "sample"
       /\ HasLabel(encOut.lines[i].labels, S_index)

(* the naming of the sample of the primitive at an object path: without    *)
(* emptyOmitted a name label is required whenever the path has more than   *)
(* one segment                                                             *)
PathNaming(emptyOmitted) ==
  (Returned /\ encIn.t = "obj" /\ NoArrays(encIn)) =>
    LET ls == ObjLeaves(encIn, <<>>)
        ss == Samples(encOut.lines)
    IN /\ Len(ss) = Len(ls)
       /\ \A i \in 1..Len(ls) :
            LET path   == ls[i][1]
                joined == Join(MapSnake(Tail(path)), <<"_">>)
            IN /\ ss[i].metric = Prefix \o toSnake(path[1])
               /\ IF Len(path) > 1 /\ (emptyOmitted => joined # <<>>)
                  THEN /\ HasLabel(ss[i].labels, S_name)
                       /\ LabelValue(ss[i].labels, S_name) = joined
                  ELSE ~HasLabel(ss[i].labels, S_name)

ExampleNested == JObj(Field(<<"a">>, JObj(Field(<<"b">>, JNum(1)))))

ExampleHolds ==
  (Returned /\ encIn = ExampleNested) =>
    encOut.text = S_type \o <<"p", "_", "a">> \o S_gauge \o <<"\n">>
                    \o <<"p", "_", "a", "{", "n", "a", "m", "e", "=", "\"", "b",
                         "\"", "}", " ", "1", "\n">>

FullNumber(s) ==
  LET t == TrimWhite(s) IN
  \/ AllDigits(t)
  \/ t # <<>> /\ t[1] = "-" /\ AllDigits(Tail(t))

NumeralValue(s) ==
  LET t == TrimWhite(s) IN
  IF t[1] = "-" THEN 0 - DigitsValue(Tail(t)) ELSE DigitsValue(t)

IsBlank(s) == TrimWhite(s) = <<>>

(* the typing of the sample of each primitive of an array-free object;     *)
(* with blankIsNumber a string of white space only counts as the number 0  *)
ValueTyping(blankIsNumber) ==
  (Returned /\ encIn.t = "obj" /\ NoArrays(encIn)) =>
    LET ls == ObjLeaves(encIn, <<>>)
        ss == Samples(encOut.lines)
    IN /\ Len(ss) = Len(ls)
       /\ \A i \in 1..Len(ls) :
            LET leaf == ls[i][2] IN
            CASE leaf.t = "bool" ->
                   /\ ss[i].value = (IF leaf.b THEN 1 ELSE 0)
                   /\ ~HasLabel(ss[i].labels, S_value)
              [] leaf.t = "num" ->
                   /\ ss[i].value = leaf.n
                   /\ ~HasLabel(ss[i].labels, S_value)
              [] leaf.t = "str" /\ FullNumber(leaf.s) ->
                   /\ ss[i].value = NumeralValue(leaf.s)
                   /\ ~HasLabel(ss[i].labels, S_value)
              [] leaf.t = "str" /\ blankIsNumber /\ IsBlank(leaf.s) ->
                   /\ ss[i].value = 0
                   /\ ~HasLabel(ss[i].labels, S_value)
              [] OTHER ->
                   /\ ss[i].value = 1
                   /\ HasLabel(ss[i].labels, S_value)
                   /\ LabelValue(ss[i].labels, S_value) = leaf.s

(* C20: a boolean is the sample value 1 or 0 without a value label; a      *)
(* number, or a string that parses fully as a finite number, is that       *)
(* number without a value label; every other primitive is the value 1      *)
(* with the label value holding its string form.                           *)
C20_ValueTyping == ValueTyping(FALSE)

(* what the encoder does: as C20, except that a string that is empty or    *)
(* white space only is sampled as 0 without a value label                  *)
BlankStringIsZero == ValueTyping(TRUE)

(* ------------------------------ arrays --------------------------------- *)
RECURSIVE NoEmptyArrays(_)
NoEmptyArrays(node) ==
  /\ ~(node.t = "arr" /\ node.c = <<>>)
  /\ \A i \in 1..Len(node.c) : NoEmptyArrays(node.c[i])

(* the fields of an object in property order: those whose key is an array  *)
(* index by ascending index, then the others as inserted                   *)
PropertyOrder(fs) ==
  LET IsIndex(f) == IsIndexKey(f[1])
      IsOther(f) == ~IsIndexKey(f[1])
      idx        == SelectSeq(fs, IsIndex)
      Before(j)  == {m \in 1..Len(idx) :
                      DigitsValue(idx[m][1]) < DigitsValue(idx[j][1])}
      Nth(i)     == idx[CHOOSE j \in 1..Len(idx) : Cardinality(Before(j)) = i - 1]
      RECURSIVE Sorted(_)
      Sorted(i)  == IF i > Len(idx) THEN <<>> ELSE <<Nth(i)>> \o Sorted(i + 1)
  IN Sorted(1) \o SelectSeq(fs, IsOther)

(* every non-null primitive of a value in visiting order, fields named id  *)
(* left out: its object path and the positions, outermost first, of the    *)
(* array elements it lies in.  Objects are visited in property order, or   *)
(* with asInserted in the order in which their fields were inserted        *)
RECURSIVE LeavesBy(_, _, _, _)
RECURSIVE ElementLeaves(_, _, _, _, _)
RECURSIVE MemberLeaves(_, _, _, _)
LeavesBy(node, path, idxs, asInserted) ==
  IF node.t = "null" THEN <<>>
  ELSE IF node.t = "arr" THEN ElementLeaves(node.c, 1, path, idxs, asInserted)
  ELSE IF node.t = "obj"
  THEN MemberLeaves(IF asInserted THEN Fields(node)
                    ELSE PropertyOrder(Fields(node)), path, idxs, asInserted)
  ELSE << [path |-> path, leaf |-> node, idxs |-> idxs] >>
ElementLeaves(es, i, path, idxs, asInserted) ==
  IF i > Len(es) THEN <<>>
  ELSE LeavesBy(es[i], path, Append(idxs, i - 1), asInserted)
         \o ElementLeaves(es, i + 1, path, idxs, asInserted)
MemberLeaves(fs, path, idxs, asInserted) ==
  IF fs = <<>> THEN <<>>
  ELSE (IF fs[1][1] = S_id THEN <<>>
        ELSE LeavesBy(fs[1][2], Append(path, fs[1][1]), idxs, asInserted))
         \o MemberLeaves(Tail(fs), path, idxs, asInserted)

Leaves(node, path, idxs) == LeavesBy(node, path, idxs, FALSE)

ExampleArray == JObj(Field(<<"a">>, JArr(<<JNum(1), JNum(2)>>)))

ExampleArrayHolds ==
  (Returned /\ encIn = ExampleArray) =>
    LineTexts(Samples(encOut.lines))
      = << <<"p", "_", "a", "{", "i", "n", "d", "e", "x", "=", "\"", "0", "\"",
             "}", " ", "1">>,
           <<"p", "_", "a", "{", "i", "n", "d", "e", "x", "=", "\"", "1", "\"",
             "}", " ", "2">> >>

(* C21: in a value without empty arrays every non-null primitive is one    *)
(* sample, and the sample carries the label index with the position of     *)
(* every array element it lies in: of the element it is, and of each       *)
(* object or array element it descends from.  encode({a: [1, 2]}, "p_")    *)
(* emits p_a{index="0"} 1 then p_a{index="1"} 2.                           *)
C21_IndexLabels ==
  /\ (Returned /\ NoEmptyArrays(encIn)) =>
       LET ls == Leaves(encIn, <<>>, <<>>)
           ss == Samples(encOut.lines)
       IN /\ Len(ss) = Len(ls)
          /\ \A i \in 1..Len(ls) :
               \A j \in 1..Len(ls[i].idxs) :
                 /\ HasLabel(ss[i].labels, S_index)
                 /\ LabelValue(ss[i].labels, S_index) = NumText(ls[i].idxs[j])
  /\ ExampleArrayHolds

(* what the encoder does: the label index holds the position of the        *)
(* outermost array element only, and is absent outside arrays              *)
OutermostIndexOnly ==
  /\ (Returned /\ NoEmptyArrays(encIn)) =>
       LET ls == Leaves(encIn, <<>>, <<>>)
           ss == Samples(encOut.lines)
       IN /\ Len(ss) = Len(ls)
          /\ \A i \in 1..Len(ls) :
               IF ls[i].idxs = <<>> THEN ~HasLabel(ss[i].labels, S_index)
               ELSE /\ HasLabel(ss[i].labels, S_index)
                    /\ LabelValue(ss[i].labels, S_index) = NumText(ls[i].idxs[1])
  /\ ExampleArrayHolds

(* --------------------------- empty arrays ------------------------------ *)
RECURSIVE SumSeq(_)
SumSeq(ns) == IF ns = <<>> THEN 0 ELSE ns[1] + SumSeq(Tail(ns))

(* the empty arrays that are the root or the field of an object and that   *)
(* traversal reaches (no field named id on the way); with inElements =     *)
(* FALSE those inside an array element are not counted.  isElement: the    *)
(* node is itself an array element; inside: it lies in one                 *)
RECURSIVE EmptyArrays(_, _, _, _)
EmptyArrays(node, isElement, inside, inElements) ==
  IF node.t = "arr"
  THEN IF node.c = <<>>
       THEN (IF isElement \/ (inside /\ ~inElements) THEN 0 ELSE 1)
       ELSE SumSeq([i \in 1..Len(node.c) |->
                      EmptyArrays(node.c[i], TRUE, TRUE, inElements)])
  ELSE IF node.t = "obj" /\ node.c # <<>>
  THEN SumSeq([i \in 1..Len(node.c) |->
                 IF node.ks[i] = S_id THEN 0
                 ELSE EmptyArrays(node.c[i], FALSE, inside, inElements)])
  ELSE 0

(* the samples with label value="none" and sample value 1 *)
NoneSamples ==
  {i \in 1..Len(encOut.lines) :
     /\ encOut.lines[i].kind = "sample"
     /\ encOut.lines[i].value = 1
     /\ HasLabel(encOut.lines[i].labels, S_value)
     /\ LabelValue(encOut.lines[i].labels, S_value) = S_none}

ExampleEmptyHolds ==
  (Returned /\ encIn = JObj(Field(<<"a">>, JArr(<<>>)))) =>
    LineTexts(Samples(encOut.lines))
      = << <<"p", "_", "a", "{", "v", "a", "l", "u", "e", "=", "\"", "n", "o",
             "n", "e", "\"", "}", " ", "1">> >>

(* C22: the samples with label value="none" and value 1 are as many as    *)
(* the empty arrays that traversal reaches as the root or as a field: of   *)
(* the root, of a nested object or of an object that is an array element.  *)
(* encode({a: []}, "p_") emits p_a{value="none"} 1.                        *)
C22_EmptyArrays ==
  /\ Returned
       => Cardinality(NoneSamples) = EmptyArrays(encIn, FALSE, FALSE, TRUE)
  /\ ExampleEmptyHolds

(* what the encoder does: an empty array inside an array element emits     *)
(* nothing, every other empty array one sample                             *)
EmptyArraysOutsideElements ==
  /\ Returned
       => Cardinality(NoneSamples) = EmptyArrays(encIn, FALSE, FALSE, FALSE)
  /\ ExampleEmptyHolds

(* ------------------------------ headers -------------------------------- *)
TypeLines   == {i \in 1..Len(encOut.lines) : encOut.lines[i].kind = "type"}
SampleLines == {i \in 1..Len(encOut.lines) : encOut.lines[i].kind = "sample"}

(* C23: every sample is preceded by exactly one line '# TYPE <name> gauge' *)
(* of its metric name and no other line of that name exists; every TYPE    *)
(* line is directly followed by a sample of its name; the TYPE lines are   *)
(* as many as the distinct metric names of the samples.                    *)
C23_OneTypeLine ==
  Returned =>
    /\ \A i \in SampleLines :
         /\ \E j \in TypeLines :
              j < i /\ encOut.lines[j].metric = encOut.lines[i].metric
         /\ Cardinality({j \in TypeLines :
                           encOut.lines[j].metric = encOut.lines[i].metric}) = 1
    /\ \A j \in TypeLines :
         /\ encOut.lines[j].text = S_type \o encOut.lines[j].metric \o S_gauge
         /\ j + 1 \in SampleLines
         /\ encOut.lines[j + 1].metric = encOut.lines[j].metric
    /\ Cardinality(TypeLines)
         = Cardinality({encOut.lines[i].metric : i \in SampleLines})

(* two keys that convert to the same name: two samples under one header *)
C23_Witness ==
  /\ Returned
  /\ encIn.t = "obj"
  /\ Len(encIn.ks) = 2
  /\ Cardinality(SampleLines) = 2
  /\ Cardinality(TypeLines) = 1

StartsWith(s, prefix) ==
  Len(s) >= Len(prefix) /\ SubSeq(s, 1, Len(prefix)) = prefix

HelpOf(metric) == <<"#", " ", "H", "E", "L", "P", " ">> \o metric

(* C24: for the metric name of every sample the output has a line that     *)
(* starts with '# HELP <name>' and a line that starts with '# TYPE <name>'. *)
C24_HelpAndType ==
  Returned =>
    \A i \in SampleLines :
      /\ \E j \in 1..Len(encOut.lines) :
           StartsWith(encOut.lines[j].text, HelpOf(encOut.lines[i].metric))
      /\ \E j \in 1..Len(encOut.lines) :
           StartsWith(encOut.lines[j].text, S_type \o encOut.lines[i].metric)

(* what the encoder does: no line of any output starts with '# HELP' *)
NoHelpLine ==
  Returned =>
    \A j \in 1..Len(encOut.lines) :
      ~StartsWith(encOut.lines[j].text, HelpOf(<<>>))

(* -------------------------------- nulls -------------------------------- *)
(* the value without the object fields whose value is null, at every depth *)
RECURSIVE StripNulls(_)
RECURSIVE StripNullsAll(_)
RECURSIVE StripNullFields(_)
StripNullsAll(vs) ==
  IF vs = <<>> THEN <<>> ELSE <<StripNulls(vs[1])>> \o StripNullsAll(Tail(vs))
StripNullFields(fs) ==
  IF fs = <<>> THEN <<>>
  ELSE (IF fs[1][2].t = "null" THEN <<>>
        ELSE << <<fs[1][1], StripNulls(fs[1][2])>> >>)
         \o StripNullFields(Tail(fs))
StripNulls(node) ==
  CASE node.t = "arr" -> JArr(StripNullsAll(node.c))
    [] node.t = "obj" -> JObj(StripNullFields(Fields(node)))
    [] OTHER          -> node

(* C25: the lines are those of the same value with every null field       *)
(* missing; null itself yields the empty output; in a value without empty  *)
(* arrays the samples are, one each and in order, the non-null primitives, *)
(* a null array element leaving the metric and the position label of the   *)
(* other elements as they are; without such a primitive no line is         *)
(* emitted.                                                                *)
C25_NullsSkipped ==
  Returned =>
    /\ encOut.lines = linesOf(idLabel(encIn), StripNulls(encIn), Prefix)
    /\ encIn.t = "null" => encOut.text = <<>>
    /\ NoEmptyArrays(encIn) =>
         LET ls == Leaves(encIn, <<>>, <<>>)
             ss == Samples(encOut.lines)
         IN /\ Len(ss) = Len(ls)
            /\ ls = <<>> => encOut.lines = <<>>
            /\ \A i \in 1..Len(ls) :
                 /\ ss[i].metric
                      = Prefix \o (IF ls[i].path = <<>> THEN S_root
                                   ELSE toSnake(ls[i].path[1]))
                 /\ ls[i].idxs # <<>>
                      => /\ HasLabel(ss[i].labels, S_index)
                         /\ LabelValue(ss[i].labels, S_index)
                              = NumText(ls[i].idxs[1])

(* an array whose first element is null and whose second is sampled with   *)
(* index="1"                                                               *)
C25_Witness ==
  /\ Returned
  /\ \E i \in 1..Len(encIn.c) :
       /\ encIn.c[i].t = "arr"
       /\ Len(encIn.c[i].c) = 2
       /\ encIn.c[i].c[1].t = "null"
  /\ Cardinality(SampleLines) = 1
  /\ \E i \in SampleLines :
       /\ HasLabel(encOut.lines[i].labels, S_index)
       /\ LabelValue(encOut.lines[i].labels, S_index) = <<"1">>

(* ---------------------------- key conversion --------------------------- *)
(* every object key of a value, at every depth *)
RECURSIVE KeysOf(_)
KeysOf(node) ==
  (IF node.t = "obj" THEN Range(node.ks) ELSE {})
    \cup UNION {KeysOf(node.c[i]) : i \in 1..Len(node.c)}

TokenChars == LowerChars \cup DigitChars \cup {"_"}

(* the token built in one pass over the key: before an upper-case letter   *)
(* that follows a lower-case letter or digit comes a separator, a          *)
(* character outside [A-Za-z0-9_] is a separator, a separator is written   *)
(* only after a character that is not one, the others in lower case; a     *)
(* final separator is dropped                                              *)
RECURSIVE TokenFrom(_, _, _)
TokenFrom(key, i, out) ==
  IF i > Len(key)
  THEN (IF out # <<>> /\ out[Len(out)] = "_"
        THEN SubSeq(out, 1, Len(out) - 1) ELSE out)
  ELSE LET ch       == key[i]
           boundary == /\ i > 1
                       /\ key[i - 1] \in (LowerChars \cup DigitChars)
                       /\ ch \in UpperChars
           sep(o)   == IF o # <<>> /\ o[Len(o)] # "_" THEN Append(o, "_") ELSE o
           out1     == IF boundary THEN sep(out) ELSE out
       IN TokenFrom(key, i + 1,
                    IF ch \in (LowerChars \cup UpperChars \cup DigitChars)
                    THEN Append(out1, ToLower(ch))
                    ELSE sep(out1))

(* C26: the token of every key consists of characters of [a-z0-9_], does   *)
(* not begin or end with '_', has no two adjacent '_', and is the key with *)
(* a separator at every lower-case-or-digit/upper-case boundary, every     *)
(* character outside [A-Za-z0-9_] made a separator, separator runs         *)
(* collapsed, edge separators stripped, in lower case; a root field that   *)
(* is sampled has that token after the prefix as its metric name.          *)
C26_KeyConversion ==
  Returned =>
    /\ \A key \in KeysOf(encIn) :
         LET token == toSnake(key) IN
         /\ \A i \in 1..Len(token) : token[i] \in TokenChars
         /\ token # <<>> => token[1] # "_" /\ token[Len(token)] # "_"
         /\ \A i \in 1..(Len(token) - 1) : ~(token[i] = "_" /\ token[i + 1] = "_")
         /\ token = TokenFrom(key, 1, <<>>)
    /\ (encIn.t = "obj" /\ Len(encIn.ks) = 1 /\ encIn.c[1].t = "num")
         => \A i \in SampleLines :
              encOut.lines[i].metric = Prefix \o TokenFrom(encIn.ks[1], 1, <<>>)

(* the key aB- is sampled as metric p_a_b *)
C26_Witness ==
  /\ Returned
  /\ encIn.t = "obj"
  /\ encIn.ks = << <<"a", "B", "-">> >>
  /\ \E i \in SampleLines :
       encOut.lines[i].metric = <<"p", "_", "a", "_", "b">>

(* ------------------------------- order --------------------------------- *)
RECURSIVE Terminated(_)
Terminated(texts) ==
  IF texts = <<>> THEN <<>>
  ELSE texts[1] \o <<"\n">> \o Terminated(Tail(texts))

MetricOf(path) ==
  Prefix \o (IF path = <<>> THEN S_root ELSE toSnake(path[1]))

(* the output is its lines, each followed by a newline, and empty without  *)
(* a sample; no line holds a newline; in a value without empty arrays the  *)
(* samples are the non-null primitives in visiting order                   *)
LinesInOrder(asInserted) ==
  Returned =>
    /\ encOut.text = Terminated(LineTexts(encOut.lines))
    /\ SampleLines = {} => encOut.text = <<>>
    /\ \A i \in 1..Len(encOut.lines) :
         \A j \in 1..Len(encOut.lines[i].text) : encOut.lines[i].text[j] # "\n"
    /\ NoEmptyArrays(encIn) =>
         LET ls == LeavesBy(encIn, <<>>, <<>>, asInserted)
             ss == Samples(encOut.lines)
         IN /\ Len(ss) = Len(ls)
            /\ \A i \in 1..Len(ls) : ss[i].metric = MetricOf(ls[i].path)

(* C27 as stated: the lines follow the visiting order with object keys in  *)
(* insertion order and array elements by position, every line is           *)
(* terminated by a newline, and an input without a sample yields the       *)
(* empty string.                                                           *)
C27_InsertionOrder == LinesInOrder(TRUE)

(* C27, amended: as stated, with object keys in property order: the keys   *)
(* that are array indices first, by ascending index, then the other keys   *)
(* in insertion order.                                                     *)
C27_VisitOrder == LinesInOrder(FALSE)

(* a field with an index key inserted after a field with another key is    *)
(* sampled first                                                           *)
C27_Witness ==
  /\ Returned
  /\ encIn.t = "obj"
  /\ encIn.ks = << <<"a">>, <<"1">> >>
  /\ Len(Samples(encOut.lines)) = 2
  /\ Samples(encOut.lines)[1].metric = <<"p", "_", "1">>
  /\ Samples(encOut.lines)[2].metric = <<"p", "_", "a">>

(* ----------------------------- repeated calls -------------------------- *)
(* C28: the second call on an input returns the text of the first, byte    *)
(* for byte and line for line, whether or not a call on another input was  *)
(* made between the two.                                                   *)
C28_SameOutputAgain ==
  encPc = "again" => encAgain.text = encOut.text /\ encAgain.lines = encOut.lines

(* both calls on an input of metric p_a returned, a call on another input  *)
(* of metric p_a having been made as well                                  *)
C28_Witness ==
  /\ encPc = "again"
  /\ encOther \in OtherInputs
  /\ \E i \in 1..Len(encAgain.lines) :
       /\ encAgain.lines[i].kind = "type"
       /\ encAgain.lines[i].metric = <<"p", "_", "a">>
  /\ \E i \in 1..Len(encAgain.lines) : encAgain.lines[i].kind = "sample"

(* --------------------------- parse fallback ---------------------------- *)
(* the last "}" of the text that closes a "{", with that "{": found by     *)
(* scanning with the stack of the open "{"; <<0, 0>> when there is none    *)
RECURSIVE LastPair(_, _, _, _)
LastPair(ts, i, open, last) ==
  IF i > Len(ts) THEN last
  ELSE IF ts[i] = "{" THEN LastPair(ts, i + 1, <<i>> \o open, last)
  ELSE IF ts[i] = "}" /\ open # <<>>
  THEN LastPair(ts, i + 1, Tail(open), <<open[1], i>>)
  ELSE LastPair(ts, i + 1, open, last)

(* the last balanced {...} substring of the text *)
HasBalanced(ts)  == LastPair(ts, 1, <<>>, <<0, 0>>) # <<0, 0>>
LastBalanced(ts) ==
  SubSeq(ts, LastPair(ts, 1, <<>>, <<0, 0>>)[1], LastPair(ts, 1, <<>>, <<0, 0>>)[2])

Parsed == scrapePc \in {"parsed", "failed_parse"}

(* C29: a text that parses is returned as parsed.  Of a text that does     *)
(* not, the last balanced {...} substring is parsed instead and returned   *)
(* when it parses; the call fails only when neither parses.  (Required     *)
(* here only of a text that ends with that substring.)                     *)
C29_FallbackLastBalanced ==
  Parsed =>
    IF JSONparse(pageText).ok
    THEN scrapePc = "parsed" /\ scrapeData = JSONparse(pageText).val
    ELSE IF HasBalanced(pageText) /\ JSONparse(LastBalanced(pageText)).ok
    THEN LastPair(pageText, 1, <<>>, <<0, 0>>)[2] = Len(pageText)
           => /\ scrapePc = "parsed"
              /\ scrapeData = JSONparse(LastBalanced(pageText)).val
    ELSE scrapePc = "failed_parse"

(* what the code does: the fallback parses the text from its first "{" to  *)
(* its end, and only when the text ends with "}"                           *)
FallbackFromFirstBrace ==
  Parsed =>
    IF JSONparse(pageText).ok
    THEN scrapePc = "parsed" /\ scrapeData = JSONparse(pageText).val
    ELSE IF /\ pageText[Len(pageText)] = "}"
            /\ \E i \in 1..Len(pageText) :
                 /\ pageText[i] = "{"
                 /\ \A j \in 1..(i - 1) : pageText[j] # "{"
                 /\ JSONparse(SubSeq(pageText, i, Len(pageText))).ok
                 /\ scrapeData = JSONparse(SubSeq(pageText, i, Len(pageText))).val
    THEN scrapePc = "parsed"
    ELSE scrapePc = "failed_parse"

(* the body has a sample line of the metric <prefix>exporter_request_ms *)
HasRequestMs(body) ==
  \E i \in 1..Len(body.lines) :
    /\ body.lines[i].kind = "sample"
    /\ body.lines[i].metric = Prefix \o S_request_ms

(* C30: every successful /metrics response exposes the request duration:   *)
(* whatever value the snapshot read returned, the body of a 200 response   *)
(* has a sample of the metric <prefix>exporter_request_ms.                 *)
C30_RequestMsExposed ==
  scrapePc = "sent200" => HasRequestMs(scrapeBody)

(* a 200 response for a snapshot that is an object has the sample, one for *)
(* any other snapshot has not; a null snapshot is answered with 500        *)
RequestMsOfObjectsOnly ==
  /\ scrapePc = "sent200" =>
       /\ scrapeData.t # "null"
       /\ HasRequestMs(scrapeBody) <=> scrapeData.t = "obj"
  /\ scrapePc = "sent500" => scrapeBody = NoOutput

(* ------------------------ session: further claims ---------------------- *)
(* C31: extractJsonFromPage is never called before initBrowser has         *)
(* returned: a /metrics request that arrives earlier is answered with 503  *)
(* and writes no command, registers no pending call and takes no id; a     *)
(* call that was started has initBrowser returned.                         *)
C31_NoCallBeforeReady ==
  [][\A c \in Calls :
       /\ (callPc[c] = "idle" /\ callPc'[c] # "idle" /\ initPc # "ready")
            => /\ callPc'[c] = "rejected503"
               /\ wire' = wire
               /\ inflight' = inflight
               /\ nextId' = nextId
       /\ callPc'[c] \notin {"idle", "rejected503"} => initPc' = "ready"
    ]_vars

(* a request was answered with 503 while initBrowser was awaiting a        *)
(* command, and a later request started a call                             *)
C31_Witness ==
  \E c, d \in Calls :
    /\ callPc[c] = "rejected503"
    /\ callPc[d] \in CallInFlight
    /\ initPc = "ready"

(* C32: registerJsonChangeListener called while changeListenerRegistered   *)
(* is set does nothing: no handler is added to the socket, no observer     *)
(* script is injected, no command is written, no id is taken, and the flag *)
(* stays set.                                                              *)
C32_RegisterAgainNoOp ==
  [][(regPc = "off" /\ regPc' # "off" /\ changeListenerRegistered)
       => /\ regPc' = "returned_early"
          /\ listeners' = listeners
          /\ rObservers' = rObservers
          /\ wire' = wire
          /\ inflight' = inflight
          /\ nextId' = nextId
          /\ changeListenerRegistered'
    ]_vars

(* the call returned at once with the listener registered and the observer *)
(* of the current page load in place                                       *)
C32_Witness ==
  /\ regPc = "returned_early"
  /\ changeListenerRegistered
  /\ listeners = 1
  /\ rObservers = 1

(* the entries of the table before the step are all there after it *)
EntriesKept(S) ==
  \A k \in S : k \in DOMAIN inflight' /\ inflight'[k] = inflight[k]

(* the step delivers the response to the written command w *)
Answered(w) ==
  /\ w \in wire
  /\ w \notin wire'
  /\ wsState' = "open"
  /\ sendErrors' = sendErrors

(* C33: a message without id (page load, console message) removes no entry *)
(* of the pending-call table and fulfils no pending command; a response    *)
(* whose id is in no entry changes neither the table nor any awaiting      *)
(* continuation; a response whose id is in the table removes that entry    *)
(* and no other.                                                           *)
C33_MessageFrame ==
  [][/\ (loadsFired' # loadsFired \/ changesFired' # changesFired)
          => EntriesKept(DOMAIN inflight)
     /\ straysFired' # straysFired
          => /\ inflight' = inflight
             /\ wire' = wire
             /\ initPc' = initPc
             /\ pagePc' = pagePc
             /\ callPc' = callPc
     /\ \A w \in wire :
          (Answered(w) /\ w.id \in DOMAIN inflight)
            => /\ w.id \notin DOMAIN inflight'
               /\ EntriesKept(DOMAIN inflight \ {w.id})
    ]_vars

(* a stray response and a console message have been delivered and a        *)
(* command has been answered while another command stays pending           *)
C33_Witness ==
  /\ straysFired > 0
  /\ changesFired > 0
  /\ \E k \in DOMAIN inflight : \E j \in 1..(nextId - 1) :
       j > k /\ j \notin DOMAIN inflight

(* the step delivers the error response to the written command w *)
Refused(w) ==
  /\ w \in wire
  /\ w \notin wire'
  /\ refused' # refused

(* C34: a response with the id of a pending command and an error instead   *)
(* of a result fulfils the pending call, it never rejects it: the entry is *)
(* removed and the awaiting continuation goes on as after a result.  A     *)
(* call whose Debugger.resume was refused starts its wait (or its read),   *)
(* a call whose Debugger.pause was refused ends as its read result says.   *)
C34_ErrorFulfils ==
  [][\A w \in wire :
       (Refused(w) /\ w.id \in DOMAIN inflight)
         => LET o == inflight[w.id] IN
            /\ w.id \notin DOMAIN inflight'
            /\ ~RejectedStep(o)
            /\ (o.k = "call" /\ w.method = "Debugger.resume")
                 => callPc'[o.i] = IF changeEventCounter >= targetCounter[o.i]
                                   THEN "read" ELSE "wait"
            /\ (o.k = "call" /\ w.method = "Debugger.pause")
                 => callPc'[o.i] = IF callRes[o.i] = "json" THEN "returned"
                                   ELSE IF callRes[o.i] = "garbage"
                                   THEN "failed_parse" ELSE "failed_empty"
    ]_vars

(* a call whose Debugger.pause the remote refused has returned a snapshot  *)
(* and the page is still running                                           *)
C34_Witness ==
  \E r \in refused :
    /\ r.method = "Debugger.pause"
    /\ r.owner.k = "call"
    /\ callPc[r.owner.i] = "returned"
    /\ ~rPaused

(* a call whose Debugger.resume the remote refused waits for mutations of  *)
(* the paused page                                                         *)
ResumeRefusedWaits ==
  \E r \in refused :
    /\ r.method = "Debugger.resume"
    /\ r.owner.k = "call"
    /\ callPc[r.owner.i] = "wait"
    /\ rPaused

(* C35: the waiter of a waiting call stays registered until the call's own *)
(* wait ends, whatever another call does; no call keeps waiting, and none  *)
(* times out, with the counter at or above its target.                     *)
C35_WaiterKept ==
  [][\A c \in Calls :
       /\ (callPc[c] = "wait" /\ callPc'[c] = "wait"
             /\ onJsonChangeResolve = c)
            => onJsonChangeResolve' = c
       /\ callPc'[c] = "wait" => changeEventCounter' < targetCounter'[c]
       /\ (callPc[c] = "wait" /\ callPc'[c] = "failed_timeout")
            => changeEventCounter < targetCounter[c]
    ]_vars

(* while no other call is resuming or waiting, a waiting call keeps its    *)
(* waiter and does not wait with its target reached                        *)
WaiterKeptWithoutOverlap ==
  [][\A c \in Calls :
       (\A d \in Calls \ {c} : /\ callPc[d] \notin {"resume", "wait"}
                               /\ callPc'[d] \notin {"resume", "wait"})
         => /\ (callPc[c] = "wait" /\ callPc'[c] = "wait"
                  /\ onJsonChangeResolve = c)
                 => onJsonChangeResolve' = c
            /\ (callPc'[c] = "wait" /\ loadsFired' <= 1)
                 => changeEventCounter' < targetCounter'[c]
    ]_vars

(* a call waits with the counter at its target: its waiter was removed by  *)
(* another call and the console messages reached nobody                    *)
WaitsWithTargetReached ==
  \E c \in Calls :
    /\ callPc[c] = "wait"
    /\ changeEventCounter >= targetCounter[c]
    /\ onJsonChangeResolve # c

(* the handling of page load p (a load after the first) ends in this step  *)
(* while call c is waiting for mutations                                   *)
ReloadCompletesDuringWait(c, p) ==
  /\ p > 1
  /\ pagePc[p] # "done"
  /\ pagePc'[p] = "done"
  /\ callPc[c] = "wait"
  /\ callPc'[c] = "wait"

(* C36: when the handling of a page reload completes while a call waits    *)
(* for mutations, the call can still finish its wait: the page is running, *)
(* the call's waiter is registered and at most two further notifications   *)
(* take the counter to the call's target.                                  *)
C36_ReloadKeepsWait ==
  [][\A c \in Calls : \A p \in Pages :
       ReloadCompletesDuringWait(c, p)
         => /\ ~rPaused'
            /\ onJsonChangeResolve' = c
            /\ targetCounter'[c] - changeEventCounter' <= MutationsToWait
    ]_vars

(* the reload handling always leaves the page paused under the waiting     *)
(* call                                                                    *)
ReloadPausesWaitingCall ==
  [][\A c \in Calls : \A p \in Pages :
       ReloadCompletesDuringWait(c, p) => rPaused'
    ]_vars

(* a call waits under a page that the reload handling has paused *)
WaitsUnderPausedReload ==
  \E c \in Calls :
    /\ callPc[c] = "wait"
    /\ pagePc[2] = "done"
    /\ rPaused
    /\ onJsonChangeResolve = c

(* C37: no two sample lines of one output have the same metric name and    *)
(* the same labels.                                                        *)
C37_DistinctSeries ==
  Returned =>
    \A i, j \in 1..Len(encOut.lines) :
      (/\ i < j
       /\ encOut.lines[i].kind = "sample"
       /\ encOut.lines[j].kind = "sample"
       /\ encOut.lines[i].metric = encOut.lines[j].metric)
        => Range(encOut.lines[i].labels) # Range(encOut.lines[j].labels)

(* the input has no two keys in one object that convert to the same token  *)
(* and no array directly or indirectly inside an array element             *)
RECURSIVE PlainShape(_, _)
PlainShape(node, inElement) ==
  IF node.t = "arr"
  THEN /\ ~inElement
       /\ \A i \in 1..Len(node.c) : PlainShape(node.c[i], TRUE)
  ELSE IF node.t = "obj"
  THEN /\ \A i, j \in 1..Len(node.ks) :
            i # j => toSnake(node.ks[i]) # toSnake(node.ks[j])
       /\ \A i \in 1..Len(node.c) : PlainShape(node.c[i], inElement)
  ELSE TRUE

(* for inputs of plain shape the series of one output are distinct *)
DistinctSeriesOfPlainShape ==
  (Returned /\ PlainShape(encIn, FALSE))
    => \A i, j \in 1..Len(encOut.lines) :
         (/\ i < j
          /\ encOut.lines[i].kind = "sample"
          /\ encOut.lines[j].kind = "sample"
          /\ encOut.lines[i].metric = encOut.lines[j].metric)
           => Range(encOut.lines[i].labels) # Range(encOut.lines[j].labels)

(* reading a quoted label value from position i, the first character after *)
(* the opening quote: a backslash takes the next character with it, the    *)
(* first quote without one ends the value; end = 0 when the text ends, a   *)
(* raw newline comes, or a backslash is followed by anything but \ " n     *)
RECURSIVE ReadQuoted(_, _, _)
ReadQuoted(s, i, acc) ==
  IF i > Len(s) \/ s[i] = "\n" THEN [end |-> 0, val |-> acc]
  ELSE IF s[i] = "\"" THEN [end |-> i, val |-> acc]
  ELSE IF s[i] = "\\"
  THEN IF i + 1 > Len(s) \/ s[i + 1] \notin {"\\", "\"", "n"}
       THEN [end |-> 0, val |-> acc]
       ELSE ReadQuoted(s, i + 2,
              Append(acc, IF s[i + 1] = "n" THEN "\n" ELSE s[i + 1]))
  ELSE ReadQuoted(s, i + 1, Append(acc, s[i]))

(* reading key="value" pairs from position i up to the closing brace:      *)
(* next = position after the brace, 0 when the text is not of that form    *)
RECURSIVE ReadLabels(_, _, _, _)
ReadLabels(s, i, key, acc) ==
  IF i > Len(s) THEN [next |-> 0, labels |-> acc]
  ELSE IF s[i] = "="
  THEN IF i + 1 > Len(s) \/ s[i + 1] # "\"" THEN [next |-> 0, labels |-> acc]
       ELSE LET q == ReadQuoted(s, i + 2, <<>>) IN
            IF q.end = 0 \/ q.end + 1 > Len(s) THEN [next |-> 0, labels |-> acc]
            ELSE IF s[q.end + 1] = "}"
            THEN [next |-> q.end + 2, labels |-> Append(acc, <<key, q.val>>)]
            ELSE IF s[q.end + 1] = ","
            THEN ReadLabels(s, q.end + 2, <<>>, Append(acc, <<key, q.val>>))
            ELSE [next |-> 0, labels |-> acc]
  ELSE IF s[i] \in TokenChars
  THEN ReadLabels(s, i + 1, Append(key, s[i]), acc)
  ELSE [next |-> 0, labels |-> acc]

(* a text read as one sample line: metric name, optional labels, a space   *)
(* and the rest, which is the value                                        *)
ReadSample(s, metric) ==
  LET n == Len(metric) IN
  IF ~StartsWith(s, metric) \/ n + 1 > Len(s)
  THEN [ok |-> FALSE, labels |-> <<>>, value |-> <<>>]
  ELSE LET r == IF s[n + 1] = "{" THEN ReadLabels(s, n + 2, <<>>, <<>>)
                ELSE [next |-> n + 1, labels |-> <<>>]
       IN IF r.next = 0 \/ r.next > Len(s) \/ s[r.next] # " "
          THEN [ok |-> FALSE, labels |-> <<>>, value |-> <<>>]
          ELSE [ok |-> TRUE, labels |-> r.labels,
                value |-> SubSeq(s, r.next + 1, Len(s))]

(* the characters a number is written with *)
NumberChars == DigitChars \cup {"-"}

(* C38: every sample is one line <prefix><name>[{labels}] <value>: its     *)
(* text has no newline character, and read back with the usual unescaping  *)
(* of \\, \" and \n it gives the sample's label keys and values, whatever  *)
(* characters the strings of the input have.                               *)
C38_OneLinePerSample ==
  Returned =>
    \A i \in 1..Len(encOut.lines) :
      LET line == encOut.lines[i]
          r    == ReadSample(line.text, line.metric)
      IN line.kind = "sample"
           => /\ \A j \in 1..Len(line.text) : line.text[j] # "\n"
              /\ r.ok
              /\ Len(r.labels) = Len(line.labels)
              /\ \A j \in 1..Len(r.labels) :
                   /\ r.labels[j][1] = line.labels[j][1]
                   /\ r.labels[j][2] = line.labels[j][2]
              /\ r.value # <<>>
              /\ \A j \in 1..Len(r.value) : r.value[j] \in NumberChars

(* a sample with two labels, one of them holding a backslash, a quote or   *)
(* a newline                                                               *)
C38_Witness ==
  /\ Returned
  /\ \E i \in 1..Len(encOut.lines) :
       /\ encOut.lines[i].kind = "sample"
       /\ Len(encOut.lines[i].labels) = 2
       /\ \E j \in 1..2 : \E k \in 1..Len(encOut.lines[i].labels[j][2]) :
            encOut.lines[i].labels[j][2][k] \in {"\\", "\"", "\n"}

====
